---- MODULE Spec2Model ----
(***************************************************************************)
(* Model of dewarping_json_worker/mat_to_npy.py: MatToNpyConverterDebug.   *)
(* Format detection, loading of .mat files (hdf5-based and legacy),        *)
(* conversion to .npy with read-back verification, the batch loop and the  *)
(* aggregate report.                                                       *)
(*                                                                         *)
(* Python values are tagged records.  An array element is a record         *)
(* [k, v]: k = "fin" (v the number; for floating dtypes v counts units of  *)
(* 1e-7, for integer dtypes v is the integer), "nzero" (-0.0), "nan",      *)
(* "inf" (v = 1 or -1 the sign) or "ref" (an h5py.Reference, v the id of   *)
(* the object it points to).  Arrays hold their elements flat, in C order. *)
(*                                                                         *)
(* Library behaviour taken as given: h5py.File raises OSError for every    *)
(* file it cannot open; Group.__getitem__ raises ValueError for a          *)
(* reference that resolves to no object; np.object is the builtin object   *)
(* (numpy < 1.24); np.save/np.load round-trip numeric arrays exactly, wrap *)
(* any other value in a 0-d object array, and cannot pickle an             *)
(* h5py.Reference.                                                         *)
(***************************************************************************)
EXTENDS Integers, Sequences, FiniteSets, TLC

VARIABLES
    pc,          \* position of the running entry point
    tree,        \* input root: sequence of [path, content] in os.walk order
    outdirs,     \* directories existing under the output root
    outfiles,    \* files under the output root: sequence of [path, content]
    mat_files,   \* batch: the discovered source files, in discovery order
    idx,         \* batch: number of files already processed
    results,     \* batch: the result dict, a sequence of [key, val]
    calls,       \* history: paths handed to convert_and_verify, in order
    stdout,      \* notices printed (tags)
    arg,         \* single call: [file, variable_name]
    ret          \* value returned by the last call

vars == <<pc, tree, outdirs, outfiles, mat_files, idx, results, calls, stdout, arg, ret>>

----------------------------------------------------------------------------
(* Generic helpers *)

Abs(n) == IF n < 0 THEN -n ELSE n

Range(s) == {s[i] : i \in 1..Len(s)}

RECURSIVE Reverse(_)
Reverse(s) == IF s = <<>> THEN <<>> ELSE Reverse(Tail(s)) \o <<Head(s)>>

RECURSIVE Product(_)
Product(s) == IF s = <<>> THEN 1 ELSE Head(s) * Product(Tail(s))

RECURSIVE SeqFilter(_, _)
SeqFilter(s, keep) ==
    IF s = <<>> THEN <<>>
    ELSE (IF Head(s) \in keep THEN <<Head(s)>> ELSE <<>>) \o SeqFilter(Tail(s), keep)

----------------------------------------------------------------------------
(* numpy values *)

Fin(n) == [k |-> "fin", v |-> n]
NaN == [k |-> "nan", v |-> 0]
Inf(sign) == [k |-> "inf", v |-> sign]
Ref(id) == [k |-> "ref", v |-> id]

NdArray(dtype, shape, elems) ==
    [tag |-> "ndarray", dtype |-> dtype, shape |-> shape, elems |-> elems]

\* a numpy scalar (what dataset[()] gives for a rank-0 numeric dataset)
NpScalar(dtype, e) ==
    [tag |-> "scalar", dtype |-> dtype, shape |-> <<>>, elems |-> <<e>>]

\* a bare h5py.Reference (what dataset[()] gives for a rank-0 object dataset)
RefValue(id) ==
    [tag |-> "reference", dtype |-> "object", shape |-> <<>>, elems |-> <<Ref(id)>>]

\* a Python dict name -> value, kept as a sequence of [key, val] in insertion order
DictValue(items) ==
    [tag |-> "dict", dtype |-> "dict", shape |-> <<>>, elems |-> items]

IsNdArray(x) == x.tag = "ndarray"
IsDict(x) == x.tag = "dict"
Ndim(a) == Len(a.shape)

\* np.issubdtype(dtype, np.floating)
IsFloating(dtype) == dtype \in {"float64", "float32"}

\* multi-index (0-based, C order) of flat position k (0-based) in an array of shape sh
RECURSIVE Unravel(_, _)
Unravel(k, sh) ==
    IF sh = <<>> THEN <<>>
    ELSE LET rest == Product(Tail(sh))
         IN  <<k \div rest>> \o Unravel(k % rest, Tail(sh))

\* flat position (0-based, C order) of multi-index ix in an array of shape sh
RECURSIVE Ravel(_, _)
Ravel(ix, sh) ==
    IF sh = <<>> THEN 0
    ELSE Head(ix) * Product(Tail(sh)) + Ravel(Tail(ix), Tail(sh))

\* a mutant of Transpose: the shape is reversed but the elements stay in place (a reshape)
TransposeReshapeOnly(a) ==
    [a EXCEPT !.shape = Reverse(a.shape)]

\* ndarray.T: all axes reversed
Transpose(a) ==
    LET sh == Reverse(a.shape)
    IN  [a EXCEPT !.shape = sh,
                  !.elems = [p \in 1..Len(a.elems) |->
                                a.elems[Ravel(Reverse(Unravel(p - 1, sh)), a.shape) + 1]]]

----------------------------------------------------------------------------
(* compute_array_hash and compare_matrices *)

\* np.round(x, decimals=6) of one element; finite floats are counted in units of 1e-7,
\* so this is rounding to a multiple of 10, halves to the even multiple; a negative
\* value that rounds to zero becomes -0.0
RoundDecimals(e) ==
    IF e.k # "fin" THEN e
    ELSE LET q == e.v \div 10
             r == e.v % 10
             n == IF r < 5 THEN q ELSE IF r > 5 THEN q + 1
                  ELSE IF q % 2 = 0 THEN q ELSE q + 1
         IN  IF n = 0 /\ e.v < 0 THEN [k |-> "nzero", v |-> 0] ELSE Fin(n * 10)

\* array.tobytes(): the elements' bytes in C order, without shape or dtype header;
\* the byte pattern of an element is fixed by its dtype and value
ToBytes(a) == [p \in 1..Len(a.elems) |-> <<a.dtype, a.elems[p]>>]

\* a mutant of ComputeArrayHash: floating arrays are hashed without rounding
HashWithoutRounding(a) == ToBytes(a)

\* md5(...).hexdigest()[:8], taken as injective on the byte strings of the model
ComputeArrayHash(a) ==
    IF a.dtype = "float64" \/ a.dtype = "float32"
    THEN ToBytes([a EXCEPT !.elems = [p \in 1..Len(a.elems) |-> RoundDecimals(a.elems[p])]])
    ELSE ToBytes(a)

IsFinite(e) == e.k \in {"fin", "nzero"}

\* abs_diff / (abs(mat) + 1e-10) < 1e-10 for one pair of float elements: with both
\* finite, in units of 1e-7, |a - b| * 1e10 < |a| + 1e-3, that is |a - b| <= |a| div 1e10;
\* with a nan or an infinity on either side the quotient is nan or inf
RelDiffBelowTol(a, b) ==
    /\ IsFinite(a)
    /\ IsFinite(b)
    /\ Abs(a.v - b.v) <= (Abs(a.v) \div 100000) \div 100000

\* np.isclose(a, b, rtol=1e-10, atol=1e-8): |a - b| <= atol + rtol * |b|, in units of
\* 1e-7: |a - b| * 1e10 <= 1e9 + |b|; equal infinities are close, a nan never is
IsClose(a, b) ==
    IF IsFinite(a) /\ IsFinite(b)
    THEN Abs(a.v - b.v) <= ((1000000000 + Abs(b.v)) \div 100000) \div 100000
    ELSE a.k = "inf" /\ b.k = "inf" /\ a.v = b.v

\* == on one pair of elements of a non-floating dtype
ElemEq(a, b) ==
    IF a.k = "nan" \/ b.k = "nan" THEN FALSE
    ELSE IF IsFinite(a) /\ IsFinite(b) THEN a.v = b.v
    ELSE a = b

\* np.array_equal
ArrayEqual(a, b) ==
    /\ a.shape = b.shape
    /\ \A p \in 1..Len(a.elems) : ElemEq(a.elems[p], b.elems[p])

\* np.allclose(a, b, rtol=1e-10)
AllClose(a, b) == \A p \in 1..Len(a.elems) : IsClose(a.elems[p], b.elems[p])

\* lines 53-67: [raised, equal]; np.max of an empty array raises ValueError
ValuesStep(mat, npy) ==
    IF IsFloating(mat.dtype)
    THEN IF Len(mat.elems) = 0
         THEN [raised |-> TRUE, equal |-> FALSE]
         ELSE [raised |-> FALSE,
               equal |-> \A p \in 1..Len(mat.elems) : RelDiffBelowTol(mat.elems[p], npy.elems[p])]
    ELSE [raised |-> FALSE, equal |-> ArrayEqual(mat, npy)]

\* lines 70-81
TransposedStep(mat, npy) ==
    IF Ndim(mat) = 2 /\ Ndim(npy) = 2
    THEN IF mat.shape = Transpose(npy).shape
         THEN IF IsFloating(mat.dtype)
              THEN AllClose(Transpose(mat), npy)
              ELSE ArrayEqual(Transpose(mat), npy)
         ELSE FALSE
    ELSE FALSE

\* lines 29-89; max_relative_difference, a float used only for the report, is left out
compare_matrices(mat_data, npy_data) ==
    LET Report(vs) ==
            [type |-> "array",
             shapes_equal |-> mat_data.shape = npy_data.shape,
             dtypes_equal |-> mat_data.dtype = npy_data.dtype,
             values_equal |-> vs.equal,
             transposed_equal |-> TransposedStep(mat_data, npy_data),
             differences |-> [shape |-> <<mat_data.shape, npy_data.shape>>,
                              dtype |-> <<mat_data.dtype, npy_data.dtype>>,
                              comparison_error |-> vs.raised,
                              hash |-> <<ComputeArrayHash(mat_data), ComputeArrayHash(npy_data)>>]]
    IN  Report(IF mat_data.shape = npy_data.shape THEN ValuesStep(mat_data, npy_data)
               ELSE [raised |-> FALSE, equal |-> FALSE])

----------------------------------------------------------------------------
(* Files.  A file is [fmt, entries]: fmt "hdf5" (opens under h5py), "legacy" (reads    *)
(* under scipy.io.loadmat), "npy" or "corrupt" (neither reader accepts it).  entries   *)
(* is the sequence of [name, kind, raw] the reader enumerates: for hdf5 the keys of    *)
(* the file (kind "dataset" with raw = dataset[()], or "group"); for legacy the dict   *)
(* loadmat returns, bookkeeping keys included.                                         *)

NoneValue == [tag |-> "none", dtype |-> "none", shape |-> <<>>, elems |-> <<>>]

\* a Python object that is no array (the values of __header__, __version__, __globals__)
PyObject == [tag |-> "pyobj", dtype |-> "none", shape |-> <<>>, elems |-> <<>>]

Entry(name, kind, raw) == [name |-> name, kind |-> kind, raw |-> raw]

File(fmt, entries) == [fmt |-> fmt, entries |-> entries]

Ok(v) == [raised |-> FALSE, exc |-> [type |-> "", text |-> ""], val |-> v]
Raise(type, text) == [raised |-> TRUE, exc |-> [type |-> type, text |-> text], val |-> NoneValue]

\* h5py.File(file_path, 'r')
H5pyFile(file) ==
    IF file.fmt = "hdf5" THEN Ok(NoneValue)
    ELSE Raise("OSError", "Unable to open file (file signature not found)")

\* scipy.io.loadmat(file_path, ...): the dict of the file, or the reader's exception
Loadmat(file) ==
    IF file.fmt = "legacy"
    THEN Ok(DictValue([p \in 1..Len(file.entries) |->
                        [key |-> file.entries[p].name, val |-> file.entries[p].raw]]))
    ELSE IF file.fmt = "hdf5" THEN Raise("NotImplementedError", "Please use HDF reader for matlab v7.3 files")
    ELSE Raise("ValueError", "Unknown mat file type")

\* a mutant of detect_mat_version: the inner handler is missing
DetectNoInnerExcept(file) ==
    LET Inner(l) == IF ~l.raised THEN Ok("v7.0_or_older") ELSE Raise(l.exc.type, l.exc.text)
        Outer(h) == IF ~h.raised THEN Ok("v7.3") ELSE Inner(Loadmat(file))
    IN  Outer(H5pyFile(file))

\* lines 357-367; the outer handler catches (OSError, IOError), the inner one everything
detect_mat_version(file) ==
    LET Inner(l) == IF ~l.raised THEN Ok("v7.0_or_older") ELSE Ok("unknown")
        Outer(h) ==
            IF ~h.raised THEN Ok("v7.3")
            ELSE IF h.exc.type \in {"OSError", "IOError"} THEN Inner(Loadmat(file))
            ELSE Raise(h.exc.type, h.exc.text)
    IN  Outer(H5pyFile(file))

----------------------------------------------------------------------------
(* Objects a reference can point to, by reference id *)

FloatOne == 10000000

RefObjects ==
    [id \in 0..5 |->
        CASE id = 0 -> [kind |-> "null", raw |-> NoneValue]
          [] id = 1 -> [kind |-> "group", raw |-> NoneValue]
          [] id = 2 -> [kind |-> "dataset", raw |-> NdArray("float64", <<1, 1>>, <<Fin(5 * FloatOne)>>)]
          [] id = 3 -> [kind |-> "dataset", raw |-> NdArray("float64", <<1, 1>>, <<Fin(6 * FloatOne)>>)]
          [] id = 4 -> [kind |-> "dataset",
                        raw |-> NdArray("float64", <<3, 2>>,
                                        <<Fin(FloatOne), Fin(4 * FloatOne), Fin(2 * FloatOne),
                                          Fin(5 * FloatOne), Fin(3 * FloatOne), Fin(6 * FloatOne)>>)]
          [] OTHER  -> [kind |-> "dataset", raw |-> NdArray("uint8", <<2>>, <<Fin(7), Fin(8)>>)]]

\* f[ref]: Group.__getitem__ raises ValueError when the reference resolves to no object
Deref(ref) ==
    IF RefObjects[ref.v].kind = "null" THEN Raise("ValueError", "Invalid HDF5 object reference")
    ELSE Ok(RefObjects[ref.v])

\* f[item][()]: reading () from a group raises TypeError
DerefRead(ref) ==
    LET Read(o) ==
            IF o.raised THEN o
            ELSE IF o.val.kind = "dataset" THEN Ok(o.val.raw)
            ELSE Raise("TypeError", "Accessing a group is done with bytes or str")
    IN  Read(Deref(ref))

RECURSIVE ConcatElems(_)
ConcatElems(items) ==
    IF items = <<>> THEN <<>> ELSE Head(items).elems \o ConcatElems(Tail(items))

\* a mutant of DerefObjectArray: failed elements are left out instead of failing the whole
DerefSkipFailed(raw_data) ==
    LET Stack(items) ==
            IF items = <<>> THEN Ok(raw_data)
            ELSE Ok(NdArray(items[1].dtype, <<Len(ConcatElems(items))>>, ConcatElems(items)))
        Values(good) == Stack([p \in 1..Len(good) |-> good[p].val])
        Keep(reads) == Values(SeqFilter(reads, {r \in Range(reads) : ~r.raised}))
    IN  Keep([p \in 1..Len(raw_data.elems) |-> DerefRead(raw_data.elems[p])])

\* lines 205-212: dereference every element, np.array(...).reshape(raw_data.shape).
\* np.array stacks items of one shape s into shape (n,) + s; reshape raises ValueError
\* unless the sizes agree.  Items of differing shapes are outside the inputs drawn.
DerefObjectArray(raw_data) ==
    LET Reshape(dtype, elems) ==
            IF Len(elems) # Product(raw_data.shape)
            THEN Raise("ValueError", "cannot reshape array")
            ELSE Ok(NdArray(dtype, raw_data.shape, elems))
        Stack(items) ==
            IF \E p \in 1..Len(items) : items[p].shape # items[1].shape
            THEN Raise("ValueError", "inhomogeneous shape")
            ELSE Reshape(IF items = <<>> THEN "float64" ELSE items[1].dtype, ConcatElems(items))
        Collect(reads) ==
            IF \E p \in 1..Len(reads) : reads[p].raised
            THEN Raise("Exception", "dereference failed")
            ELSE Stack([p \in 1..Len(reads) |-> reads[p].val])
    IN  Collect([p \in 1..Len(raw_data.elems) |->
                    IF raw_data.elems[p].k = "ref" THEN DerefRead(raw_data.elems[p])
                    ELSE Ok(NpScalar(raw_data.dtype, raw_data.elems[p]))])

----------------------------------------------------------------------------
(* load_mat_correctly *)

Item(key, val) == [key |-> key, val |-> val]

DictKeys(items) == {items[p].key : p \in 1..Len(items)}

DictGet(items, key) == items[CHOOSE p \in 1..Len(items) : items[p].key = key].val

\* d[key] = val on a dict kept in insertion order
DictSet(items, key, val) ==
    IF key \in DictKeys(items)
    THEN [p \in 1..Len(items) |-> IF items[p].key = key THEN Item(key, val) ELSE items[p]]
    ELSE Append(items, Item(key, val))

\* an entry of meta['loaded_variables']; shape_key is the dict key the shape is stored under
LoadedVar(name, shape_key, shape, dtype) ==
    [name |-> name, shape_key |-> shape_key, shape |-> shape, dtype |-> dtype]

Warning(text, name) == [text |-> text, name |-> name]

Resolved(data, warnings) ==
    [raised |-> FALSE, exc |-> Ok(0).exc, data |-> data, warnings |-> warnings]

ResolveRaised(exc) ==
    [raised |-> TRUE, exc |-> exc, data |-> NoneValue, warnings |-> <<>>]

\* a mutant of ResolveDataset: a reference to a non-dataset is kept without a warning and
\* an object array that cannot be dereferenced aborts the load
ResolveNoRecovery(key, raw_data) ==
    LET Single(o) ==
            IF o.raised THEN ResolveRaised(o.exc)
            ELSE Resolved(IF o.val.kind = "dataset" THEN o.val.raw ELSE raw_data, <<>>)
        Many(d) == IF d.raised THEN ResolveRaised(d.exc) ELSE Resolved(d.val, <<>>)
    IN  IF raw_data.dtype = "object" /\ raw_data.tag = "reference"
        THEN Single(Deref(raw_data.elems[1]))
        ELSE IF raw_data.dtype = "object" /\ raw_data.tag = "ndarray"
        THEN Many(DerefObjectArray(raw_data))
        ELSE Resolved(raw_data, <<>>)

\* lines 189-219: the value of one dataset after reference handling.  The lookup f[raw_data]
\* of a single reference stands outside any try; the object-array branch is inside one.
ResolveDataset(key, raw_data) ==
    LET Single(o) ==
            IF o.raised THEN ResolveRaised(o.exc)
            ELSE IF o.val.kind = "dataset" THEN Resolved(o.val.raw, <<>>)
            ELSE Resolved(raw_data, <<Warning("is a reference to non-dataset", key)>>)
        Many(d) ==
            IF d.raised
            THEN Resolved(raw_data, <<Warning("Could not dereference object array", key)>>)
            ELSE Resolved(d.val, <<>>)
    IN  IF raw_data.dtype = "object"
        THEN IF raw_data.tag = "reference" THEN Single(Deref(raw_data.elems[1]))
             ELSE IF raw_data.tag = "ndarray" THEN Many(DerefObjectArray(raw_data))
             ELSE Resolved(raw_data, <<>>)
        ELSE Resolved(raw_data, <<>>)

\* a mutant of LayoutStep: only 2-dimensional arrays are transposed
LayoutOnly2D(key, data) ==
    IF IsNdArray(data) /\ Ndim(data) = 2
    THEN [data |-> Transpose(data),
          loaded |-> <<LoadedVar(key, "original_shape", data.shape, data.dtype)>>,
          transposed |-> TRUE]
    ELSE [data |-> data, loaded |-> <<>>, transposed |-> FALSE]

\* lines 221-232: column-major to row-major
LayoutStep(key, data) ==
    IF IsNdArray(data) /\ Ndim(data) >= 2
    THEN [data |-> Transpose(data),
          loaded |-> <<LoadedVar(key, "original_shape", data.shape, data.dtype)>>,
          transposed |-> TRUE]
    ELSE [data |-> data, loaded |-> <<>>, transposed |-> FALSE]

\* lines 183-234: the loop over f.keys(); acc is [raised, exc, data_dict, loaded_variables,
\* warnings, transpose_applied]
RECURSIVE H5Loop(_, _)
H5Loop(entries, acc) ==
    IF entries = <<>> \/ acc.raised THEN acc
    ELSE LET Store(key, warnings, l) ==
                 H5Loop(Tail(entries),
                        [acc EXCEPT !.data_dict = DictSet(@, key, l.data),
                                    !.loaded_variables = @ \o l.loaded,
                                    !.warnings = @ \o warnings,
                                    !.transpose_applied = @ \/ l.transposed])
             Body(key, r) ==
                 IF r.raised THEN [acc EXCEPT !.raised = TRUE, !.exc = r.exc]
                 ELSE Store(key, r.warnings, LayoutStep(key, r.data))
         IN  IF Head(entries).kind # "dataset" THEN H5Loop(Tail(entries), acc)
             ELSE Body(Head(entries).name, ResolveDataset(Head(entries).name, Head(entries).raw))

\* a mutant of IsDunder: no key is taken for a bookkeeping key
NeverDunder(key) == FALSE

\* key.startswith('__') and key.endswith('__'); names are drawn so that the bookkeeping
\* keys are exactly these
IsDunder(key) == key \in {"__header__", "__version__", "__globals__", "____"}

\* lines 252-265
RECURSIVE LegacyLoop(_, _)
LegacyLoop(entries, acc) ==
    IF entries = <<>> THEN acc
    ELSE LET Body(key, data) ==
                 IF IsDunder(key) THEN LegacyLoop(Tail(entries), acc)
                 ELSE LegacyLoop(Tail(entries),
                        [acc EXCEPT !.data_dict = DictSet(@, key, data),
                                    !.loaded_variables =
                                        IF IsNdArray(data)
                                        THEN Append(@, LoadedVar(key, "shape", data.shape, data.dtype))
                                        ELSE @])
         IN  Body(Head(entries).key, Head(entries).val)

\* None, or a name given by the caller
NoName == <<>>
Name(n) == <<n>>

\* Python truth value of the variable_name argument
Truthy(variable_name) == variable_name # NoName /\ variable_name[1] # ""

\* a mutant of SelectVariable: the caller's name is ignored
SelectIgnoreName(data_dict, variable_name) ==
    IF Len(data_dict) = 1
    THEN [data |-> data_dict[1].val, selected_variable |-> data_dict[1].key]
    ELSE [data |-> DictValue(data_dict), selected_variable |-> "dict"]

\* lines 236-245 and 267-276
SelectVariable(data_dict, variable_name) ==
    IF Truthy(variable_name) /\ variable_name[1] \in DictKeys(data_dict)
    THEN [data |-> DictGet(data_dict, variable_name[1]), selected_variable |-> variable_name[1]]
    ELSE IF Len(data_dict) = 1
    THEN [data |-> data_dict[1].val, selected_variable |-> data_dict[1].key]
    ELSE [data |-> DictValue(data_dict), selected_variable |-> "dict"]

LoopStart ==
    [raised |-> FALSE, exc |-> Ok(0).exc, data_dict |-> <<>>, loaded_variables |-> <<>>,
     warnings |-> <<>>, transpose_applied |-> FALSE]

Meta(version, acc, selected) ==
    [version |-> version, loaded_variables |-> acc.loaded_variables, warnings |-> acc.warnings,
     transpose_applied |-> acc.transpose_applied, selected_variable |-> selected]


Loaded(data, meta) == [raised |-> FALSE, exc |-> Ok(0).exc, data |-> data, meta |-> meta]

LoadRaised(exc) == [raised |-> TRUE, exc |-> exc, data |-> NoneValue, meta |-> Meta("", LoopStart, "")]

\* a mutant of load_mat_correctly: a failure of the legacy reader is swallowed and an
\* empty mapping returned
LoadSwallowsReaderError(file, variable_name) ==
    LET Selected(version, acc, sel) == Loaded(sel.data, Meta(version, acc, sel.selected_variable))
        Select(version, acc) ==
            IF acc.raised THEN LoadRaised(acc.exc)
            ELSE Selected(version, acc, SelectVariable(acc.data_dict, variable_name))
        Legacy(version, m) ==
            IF m.raised THEN Select(version, LoopStart)
            ELSE Select(version, LegacyLoop(m.val.elems, LoopStart))
        Branch(version) ==
            IF version.raised THEN LoadRaised(version.exc)
            ELSE IF version.val = "v7.3" THEN Select(version.val, H5Loop(file.entries, LoopStart))
            ELSE Legacy(version.val, Loadmat(file))
    IN  Branch(detect_mat_version(file))

\* lines 160-278: [raised, exc, data, meta]
load_mat_correctly(file, variable_name) ==
    LET Selected(version, acc, sel) == Loaded(sel.data, Meta(version, acc, sel.selected_variable))
        Select(version, acc) ==
            IF acc.raised THEN LoadRaised(acc.exc)
            ELSE Selected(version, acc, SelectVariable(acc.data_dict, variable_name))
        Legacy(version, m) ==
            IF m.raised THEN LoadRaised(m.exc)
            ELSE Select(version, LegacyLoop(m.val.elems, LoopStart))
        Branch(version) ==
            IF version.raised THEN LoadRaised(version.exc)
            ELSE IF version.val = "v7.3" THEN Select(version.val, H5Loop(file.entries, LoopStart))
            ELSE Legacy(version.val, Loadmat(file))
    IN  Branch(detect_mat_version(file))

----------------------------------------------------------------------------
(* inspect_mat_file_deep *)

VarInfo(name, type, shape, dtype, is_reference) ==
    [name |-> name, type |-> type, shape |-> shape, dtype |-> dtype, is_reference |-> is_reference]

Issue(text, name) == [text |-> text, name |-> name]

\* lines 108-135: one key of an hdf5 file; a group has shape None and dtype None.  The
\* lookup of the referenced object is inside a try whose handler passes.
H5VarInfo(e) ==
    IF e.kind = "dataset"
    THEN VarInfo(e.name, "Dataset", e.raw.shape, e.raw.dtype, e.raw.dtype = "object")
    ELSE VarInfo(e.name, "Group", <<>>, "None", FALSE)

Info(version, variables, issues) ==
    [version |-> version, variables |-> variables, issues |-> issues]

\* lines 91-158: [version, variables, issues]; never raises (every step is inside the try)
inspect_mat_file_deep(file) ==
    LET Issues(version, infos, refs) ==
            Info(version, infos, [p \in 1..Len(refs) |-> Issue("is a reference", refs[p].name)])
        H5(version, infos) ==
            Issues(version, infos, SeqFilter(infos, {i \in Range(infos) : i.is_reference}))
        Vars(version, kept) ==
            Info(version,
                 [p \in 1..Len(kept) |->
                     VarInfo(kept[p].key, IF IsNdArray(kept[p].val) THEN "ndarray" ELSE "object",
                             kept[p].val.shape, kept[p].val.dtype, FALSE)],
                 <<>>)
        Legacy(version, m) ==
            IF m.raised THEN Info(version, <<>>, <<Issue("Error inspecting file", m.exc.text)>>)
            ELSE Vars(version, SeqFilter(m.val.elems, {i \in Range(m.val.elems) : ~IsDunder(i.key)}))
        Branch(version) ==
            IF version.raised
            THEN Info("None", <<>>, <<Issue("Error inspecting file", version.exc.text)>>)
            ELSE IF version.val = "v7.3"
            THEN H5(version.val, [p \in 1..Len(file.entries) |-> H5VarInfo(file.entries[p])])
            ELSE Legacy(version.val, Loadmat(file))
    IN  Branch(detect_mat_version(file))

----------------------------------------------------------------------------
(* Paths and the output root.  A path under a root is [dir, stem, ext]: dir "" is the   *)
(* root itself; ext is the last suffix without its dot.  A directory is such a path too. *)

Path(dir, stem, ext) == [dir |-> dir, stem |-> stem, ext |-> ext]

NonePath == Path("None", "None", "None")

RootDir == Path("", "", "")

\* path.parent
Parent(path) == IF path.dir = "" THEN RootDir ELSE Path("", path.dir, "")

\* str.lower() of a suffix
Lower(ext) == IF ext = "MAT" THEN "mat" ELSE IF ext = "Mat" THEN "mat" ELSE ext

\* rel_path.with_suffix('.npy')
WithSuffixNpy(path) == [path EXCEPT !.ext = "npy"]

\* mkdir(parents=True, exist_ok=True): the directories that exist afterwards
Mkdir(dirs, d) == dirs \cup {RootDir, d}

FileKeys(files) == {files[p].key : p \in 1..Len(files)}

\* np.save(path, value, allow_pickle=True): [raised, exc, files].  open(path, 'wb') raises
\* when a directory sits at the path.  A numeric array or scalar is written as an array; any
\* other value is pickled inside a 0-d object array, and pickling an h5py.Reference raises
\* TypeError after the file has been created.
HoldsReference(value) ==
    \/ value.tag = "reference"
    \/ value.tag = "ndarray" /\ value.dtype = "object"
    \/ /\ value.tag = "dict"
       /\ \E p \in 1..Len(value.elems) :
              \/ value.elems[p].val.tag = "reference"
              \/ value.elems[p].val.tag = "ndarray" /\ value.elems[p].val.dtype = "object"

Stored(value) ==
    IF value.tag = "ndarray" THEN value
    ELSE IF value.tag = "scalar" THEN NdArray(value.dtype, <<>>, value.elems)
    ELSE NdArray("object", <<>>, <<[k |-> "pyobj", v |-> value]>>)

NpyFile(value) == File("npy", <<Entry("", "array", value)>>)

PartialFile == File("corrupt", <<>>)

NpSave(dirs, files, path, value) ==
    IF path \in dirs
    THEN [raised |-> TRUE, exc |-> [type |-> "IsADirectoryError", text |-> "Is a directory", path |-> path],
          files |-> files]
    ELSE IF HoldsReference(value)
    THEN [raised |-> TRUE, exc |-> [type |-> "TypeError", text |-> "cannot pickle", path |-> NonePath],
          files |-> DictSet(files, path, PartialFile)]
    ELSE [raised |-> FALSE, exc |-> [type |-> "", text |-> "", path |-> NonePath],
          files |-> DictSet(files, path, NpyFile(Stored(value)))]

\* np.load(path, allow_pickle=True)
NpLoad(files, path) == DictGet(files, path).entries[1].raw

----------------------------------------------------------------------------
(* convert_and_verify *)

\* a message of result['errors'] or result['warnings']: its fixed text, the path it quotes
\* (if any) and, for the dict branch, the two key-set differences it prints
ErrMsg(text, detail) == [text |-> text, detail |-> detail, only_mat |-> {}, only_npy |-> {}]

Traceback(text, stage) == [text |-> text, stage |-> stage]

EmptyVerification == [type |-> "empty"]

\* lines 286-293
NewResult(mat_file_path) ==
    [input_file |-> mat_file_path, output_file |-> NonePath, success |-> FALSE,
     verification |-> EmptyVerification, warnings |-> <<>>, errors |-> <<>>,
     has_load_meta |-> FALSE, load_meta |-> Meta("", LoopStart, ""),
     has_traceback |-> FALSE, traceback |-> Traceback("", "")]

\* a mutant of Classify: the transpose test comes first
ClassifyTransposeFirst(result, comparison) ==
    IF comparison.transposed_equal
    THEN [result EXCEPT !.verification = comparison,
                        !.warnings = Append(@, ErrMsg("Arrays differ but one is transposed of the other", NonePath))]
    ELSE IF comparison.values_equal
    THEN [result EXCEPT !.verification = comparison, !.success = TRUE]
    ELSE [result EXCEPT !.verification = comparison,
                        !.errors = Append(@, ErrMsg("Arrays are different (not just transposed)", NonePath))]

\* lines 320-328
Classify(result, comparison) ==
    IF ~comparison.values_equal
    THEN IF comparison.transposed_equal
         THEN [result EXCEPT !.verification = comparison,
                             !.warnings = Append(@, ErrMsg("Arrays differ but one is transposed of the other", NonePath))]
         ELSE [result EXCEPT !.verification = comparison,
                             !.errors = Append(@, ErrMsg("Arrays are different (not just transposed)", NonePath))]
    ELSE [result EXCEPT !.verification = comparison, !.success = TRUE]

\* lines 317-349
Certify(result, mat_data, npy_data) ==
    IF IsNdArray(mat_data) /\ IsNdArray(npy_data)
    THEN Classify(result, compare_matrices(mat_data, npy_data))
    ELSE IF IsDict(mat_data) /\ IsDict(npy_data)
    THEN IF DictKeys(mat_data.elems) = DictKeys(npy_data.elems)
         THEN [result EXCEPT !.success = TRUE,
                             !.verification = [type |-> "dict", keys_match |-> TRUE,
                                               keys |-> DictKeys(mat_data.elems)]]
         ELSE [result EXCEPT !.errors = Append(@,
                  [ErrMsg("Dictionary keys differ", NonePath)
                     EXCEPT !.only_mat = DictKeys(mat_data.elems) \ DictKeys(npy_data.elems),
                            !.only_npy = DictKeys(npy_data.elems) \ DictKeys(mat_data.elems)])]
    ELSE IF mat_data.tag = npy_data.tag
    THEN [result EXCEPT !.success = TRUE]
    ELSE [result EXCEPT !.errors = Append(@,
             ErrMsg("Types differ: " \o mat_data.tag \o " vs " \o npy_data.tag, NonePath))]

\* lines 351-353
Caught(result, exc, detail, stage) ==
    [result EXCEPT !.errors = Append(@, ErrMsg(exc.text, detail)),
                   !.has_traceback = TRUE,
                   !.traceback = Traceback(exc.text, stage)]

Out(raised, result, dirs, files) ==
    [raised |-> raised, result |-> result, dirs |-> dirs, files |-> files]

\* a mutant of convert_and_verify: no handler around the stages, an exception escapes
ConvertNoHandler(mat_file_path, file, npy_file_path, dirs, files) ==
    LET Stage56(result, mat_data, target, dirs2, saved) ==
            IF saved.raised THEN Out(TRUE, result, dirs2, saved.files)
            ELSE Out(FALSE, Certify(result, mat_data, NpLoad(saved.files, target)), dirs2, saved.files)
        Stage4(result, mat_data, target, dirs2) ==
            Stage56([result EXCEPT !.output_file = target], mat_data, target, dirs2,
                    NpSave(dirs2, files, target, mat_data))
        Stage3(result, mat_data, target) ==
            Stage4(result, mat_data, target, Mkdir(dirs, Parent(target)))
        Stage2(result, loaded) ==
            IF loaded.raised THEN Out(TRUE, result, dirs, files)
            ELSE Stage3([result EXCEPT !.has_load_meta = TRUE, !.load_meta = loaded.meta],
                        loaded.data,
                        IF npy_file_path = NonePath THEN WithSuffixNpy(mat_file_path)
                        ELSE npy_file_path)
    IN  Stage2(NewResult(mat_file_path), load_mat_correctly(file, NoName))

\* lines 280-355: [raised, result, dirs, files]; dirs and files are the output root after
\* the call.  Stage 1 (inspection) has its own handler and leaves no trace in the result.
convert_and_verify(mat_file_path, file, npy_file_path, dirs, files) ==
    LET Stage56(result, mat_data, target, dirs2, saved) ==
            IF saved.raised
            THEN Out(FALSE, Caught(result, saved.exc, saved.exc.path, "save"), dirs2, saved.files)
            ELSE Out(FALSE, Certify(result, mat_data, NpLoad(saved.files, target)), dirs2, saved.files)
        Stage4(result, mat_data, target, dirs2) ==
            Stage56([result EXCEPT !.output_file = target], mat_data, target, dirs2,
                    NpSave(dirs2, files, target, mat_data))
        Stage3(result, mat_data, target) ==
            Stage4(result, mat_data, target, Mkdir(dirs, Parent(target)))
        Stage2(result, file_info, loaded) ==
            IF loaded.raised THEN Out(FALSE, Caught(result, loaded.exc, NonePath, "load"), dirs, files)
            ELSE Stage3([result EXCEPT !.has_load_meta = TRUE, !.load_meta = loaded.meta],
                        loaded.data,
                        IF npy_file_path = NonePath THEN WithSuffixNpy(mat_file_path)
                        ELSE npy_file_path)
    IN  Stage2(NewResult(mat_file_path), inspect_mat_file_deep(file), load_mat_correctly(file, NoName))

----------------------------------------------------------------------------
(* save_detailed_report *)

TopN == 10

ReportPath == Path("", "conversion_report", "json")

\* number of positions of seq that hold x
Count(seq, x) == Cardinality({p \in 1..Len(seq) : seq[p] = x})

\* position of the first occurrence of x in seq
FirstAt(seq, x) == CHOOSE p \in 1..Len(seq) : seq[p] = x /\ \A q \in 1..(p - 1) : seq[q] # x

RECURSIVE ExtendAll(_)
ExtendAll(file_results) ==
    IF file_results = <<>> THEN <<>>
    ELSE Head(file_results).val.errors \o ExtendAll(Tail(file_results))

\* a mutant of MostCommon: the first n distinct messages, without ordering by count
MostCommonUnsorted(all_issues, n) ==
    LET msgs == Range(all_issues)
        rank(m) == Cardinality({o \in msgs : FirstAt(all_issues, o) < FirstAt(all_issues, m)})
        kept == {m \in msgs : rank(m) < n}
    IN  [p \in 1..Cardinality(kept) |->
            LET m == CHOOSE o \in kept : rank(o) = p - 1
            IN  Item(m, Count(all_issues, m))]

\* line 456-457: dict(Counter(all_issues).most_common(n)): the messages by decreasing
\* count, equal counts in order of first occurrence, cut to the first n
MostCommon(all_issues, n) ==
    LET msgs == Range(all_issues)
        before(o, m) ==
            \/ Count(all_issues, o) > Count(all_issues, m)
            \/ /\ Count(all_issues, o) = Count(all_issues, m)
               /\ FirstAt(all_issues, o) < FirstAt(all_issues, m)
        rank(m) == Cardinality({o \in msgs : before(o, m)})
        kept == {m \in msgs : rank(m) < n}
    IN  [p \in 1..Cardinality(kept) |->
            LET m == CHOOSE o \in kept : rank(o) = p - 1
            IN  Item(m, Count(all_issues, m))]

\* a mutant of Stats: a file counts as having warnings when it did not succeed
StatsWarningsByFailure(file_results) ==
    [total_files |-> Len(file_results),
     successful |-> Cardinality({p \in 1..Len(file_results) : file_results[p].val.success}),
     with_warnings |-> Cardinality({p \in 1..Len(file_results) : ~file_results[p].val.success}),
     with_errors |-> Cardinality({p \in 1..Len(file_results) : file_results[p].val.errors # <<>>}),
     file_types |-> <<>>,
     common_issues |-> MostCommon(ExtendAll(file_results), TopN)]

\* lines 441-457
Stats(file_results) ==
    [total_files |-> Len(file_results),
     successful |-> Cardinality({p \in 1..Len(file_results) : file_results[p].val.success}),
     with_warnings |-> Cardinality({p \in 1..Len(file_results) : file_results[p].val.warnings # <<>>}),
     with_errors |-> Cardinality({p \in 1..Len(file_results) : file_results[p].val.errors # <<>>}),
     file_types |-> <<>>,
     common_issues |-> MostCommon(ExtendAll(file_results), TopN)]

\* lines 459-464: the report as written to conversion_report.json
FullReport(file_results) ==
    [fmt |-> "json", entries |-> <<>>, summary |-> Stats(file_results),
     conversion_details |-> file_results]

----------------------------------------------------------------------------
(* batch_convert_with_verification *)

\* file.lower().endswith('.mat')
IsMatName(path) == Lower(path.ext) = "mat"

\* lines 376-380: the tree is kept in os.walk order
Discovered(t) ==
    LET kept == SeqFilter(t, {i \in Range(t) : IsMatName(i.key)})
    IN  [p \in 1..Len(kept) |-> kept[p].key]

\* a mutant of Discover: no early return when nothing was found
DiscoverNoEarlyReturn ==
    /\ pc = "start"
    /\ mat_files' = Discovered(tree)
    /\ stdout' = stdout \o <<"begin", "found">>
    /\ pc' = "mkdirs"
    /\ UNCHANGED <<tree, outdirs, outfiles, idx, results, calls, arg, ret>>

\* lines 373-386
Discover ==
    /\ pc = "start"
    /\ mat_files' = Discovered(tree)
    /\ IF mat_files' = <<>>
       THEN /\ stdout' = stdout \o <<"begin", "no_files_found">>
            /\ ret' = [returned |-> TRUE, val |-> <<>>]
            /\ pc' = "done"
       ELSE /\ stdout' = stdout \o <<"begin", "found">>
            /\ ret' = ret
            /\ pc' = "mkdirs"
    /\ UNCHANGED <<tree, outdirs, outfiles, idx, results, calls, arg>>

\* lines 389-392
MakeDirs ==
    /\ pc = "mkdirs"
    /\ outdirs' = outdirs \cup {RootDir} \cup {Parent(mat_files[p]) : p \in 1..Len(mat_files)}
    /\ pc' = "loop"
    /\ UNCHANGED <<tree, outfiles, mat_files, idx, results, calls, stdout, arg, ret>>

\* a mutant of ResultKey: the file's name without its directory
ResultKeyName(mat_file) == [mat_file EXCEPT !.dir = ""]

\* line 405: str(mat_file)
ResultKey(mat_file) == mat_file

Progress(result) ==
    <<IF result.success THEN "ok" ELSE "problems">>
    \o (IF result.warnings # <<>> THEN <<"warning">> ELSE <<>>)

\* lines 398-422: one turn of the loop
Iterate ==
    /\ pc = "loop"
    /\ idx < Len(mat_files)
    /\ \E mat_file \in {mat_files[idx + 1]} :
       \E out \in {convert_and_verify(mat_file, DictGet(tree, mat_file), NonePath, outdirs, outfiles)} :
           /\ calls' = Append(calls, mat_file)
           /\ outdirs' = out.dirs
           /\ outfiles' = out.files
           /\ IF out.raised
              THEN /\ pc' = "raised"
                   /\ UNCHANGED <<idx, results, stdout>>
              ELSE /\ results' = DictSet(results, ResultKey(mat_file), out.result)
                   /\ stdout' = stdout \o Progress(out.result)
                   /\ idx' = idx + 1
                   /\ pc' = pc
    /\ UNCHANGED <<tree, mat_files, arg, ret>>

\* a mutant of SaveDetailedReport: the report is written without waiting for the last file
SaveReportEarly ==
    /\ pc = "loop"
    /\ outfiles' = DictSet(outfiles, ReportPath, FullReport(results))
    /\ pc' = "summary"
    /\ UNCHANGED <<tree, outdirs, mat_files, idx, results, calls, stdout, arg, ret>>

\* line 425 and lines 436-467
SaveDetailedReport ==
    /\ pc = "loop"
    /\ idx = Len(mat_files)
    /\ outfiles' = DictSet(outfiles, ReportPath, FullReport(results))
    /\ pc' = "summary"
    /\ UNCHANGED <<tree, outdirs, mat_files, idx, results, calls, stdout, arg, ret>>

\* lines 427-434
Return ==
    /\ pc = "summary"
    /\ stdout' = Append(stdout, "summary")
    /\ ret' = [returned |-> TRUE, val |-> results]
    /\ pc' = "done"
    /\ UNCHANGED <<tree, outdirs, outfiles, mat_files, idx, results, calls, arg>>

----------------------------------------------------------------------------
(* Inputs *)

MaxDim == 3
MaxFiles == 2
MaxReportFiles == 12

Unit(dtype) == IF IsFloating(dtype) THEN FloatOne ELSE 1

\* shape of rank 1..3 with every dimension in 0..MaxDim
Shapes == UNION {[1..r -> 0..MaxDim] : r \in 1..3}

\* 1, 2, 3, ... in C order
Iota(dtype, sh) == NdArray(dtype, sh, [p \in 1..Product(sh) |-> Fin(p * Unit(dtype))])

\* 1, 2, 3, ... in column-major order: what h5py reads from a MATLAB v7.3 file
ColMajor(dtype, sh) == Transpose(Iota(dtype, Reverse(sh)))

Const(dtype, sh) == NdArray(dtype, sh, [p \in 1..Product(sh) |-> Fin(Unit(dtype))])

WithNaN(sh) == NdArray("float64", sh, [p \in 1..Product(sh) |-> IF p = 1 THEN NaN ELSE Fin(p * FloatOne)])

AllInf(sh) == NdArray("float64", sh, [p \in 1..Product(sh) |-> Inf(1)])

Arrays ==
    UNION {{Iota("float64", sh), ColMajor("float64", sh), Const("float64", sh), WithNaN(sh),
            AllInf(sh), Iota("uint8", sh), ColMajor("uint8", sh)} : sh \in Shapes}

\* arrays of references: all resolvable to 1x1 datasets, one unresolvable, to a group,
\* to datasets too large to reassemble
RefArrays ==
    {NdArray("object", <<1, 2>>, <<Ref(2), Ref(3)>>),
     NdArray("object", <<2, 1>>, <<Ref(2), Ref(3)>>),
     NdArray("object", <<2>>, <<Ref(3), Ref(2)>>),
     NdArray("object", <<1, 2>>, <<Ref(2), Ref(0)>>),
     NdArray("object", <<1, 2>>, <<Ref(1), Ref(3)>>),
     NdArray("object", <<2>>, <<Ref(0), Ref(0)>>),
     NdArray("object", <<1, 2>>, <<Ref(4), Ref(4)>>),
     NdArray("object", <<1, 1>>, <<Ref(5)>>)}

\* what dataset[()] can give
RawValues ==
    Arrays \cup RefArrays \cup {RefValue(id) : id \in 0..5}
    \cup {NpScalar("float64", Fin(7 * FloatOne)), NpScalar("uint8", Fin(7))}

Headers == <<Entry("__header__", "var", PyObject), Entry("__version__", "var", PyObject),
             Entry("__globals__", "var", PyObject)>>

Second == Iota("float64", <<2, 2>>)

H5Files ==
    {File("hdf5", <<Entry("data", "dataset", r)>>) : r \in RawValues}
    \cup {File("hdf5", <<Entry("#refs#", "group", NoneValue), Entry("data", "dataset", r)>>) :
             r \in RefArrays \cup {RefValue(id) : id \in 0..5}}
    \cup {File("hdf5", <<Entry("b", "dataset", Second), Entry("data", "dataset", r)>>) :
             r \in RefArrays \cup {RefValue(id) : id \in 0..5} \cup {Iota("float64", <<n>>) : n \in 0..MaxDim}}
    \cup {File("hdf5", <<Entry("b", "dataset", r), Entry("data", "dataset", Second)>>) : r \in RefArrays}
    \cup {File("hdf5", <<>>), File("hdf5", <<Entry("g", "group", NoneValue)>>)}

\* loadmat gives every array at least two dimensions
LegacyFiles ==
    {File("legacy", Headers \o <<Entry("data", "var", a)>>) : a \in {x \in Arrays : Ndim(x) = 2}}
    \cup {File("legacy", Headers \o <<Entry("data", "var", a), Entry("b", "var", Second)>>) :
             a \in {Iota("float64", <<2, 3>>), Iota("uint8", <<1, 1>>)}}
    \cup {File("legacy", Headers)}

CorruptFile == File("corrupt", <<>>)

ApiFiles == H5Files \cup LegacyFiles \cup {CorruptFile}

ApiNames == {NoName, Name("data"), Name("b"), Name("zz"), Name("")}

\* end-to-end inputs of the batch
LegacyScenario == File("legacy", Headers \o <<Entry("data", "var", Iota("float64", <<2, 3>>))>>)
H5Scenario == File("hdf5", <<Entry("data", "dataset", ColMajor("float64", <<3, 2>>))>>)
H5NullRef == File("hdf5", <<Entry("data", "dataset", RefValue(0))>>)
H5GroupRef == File("hdf5", <<Entry("data", "dataset", RefValue(1))>>)
LegacyNaN == File("legacy", Headers \o <<Entry("data", "var", WithNaN(<<1, 2>>))>>)
LegacyEmpty == File("legacy", Headers \o <<Entry("data", "var", Iota("float64", <<0, 0>>))>>)
LegacyTwoVars == File("legacy", Headers \o <<Entry("data", "var", Iota("float64", <<2, 3>>)),
                                             Entry("b", "var", Second)>>)

BatchContents == {LegacyScenario, H5Scenario, CorruptFile, H5NullRef, H5GroupRef, LegacyNaN,
                  LegacyEmpty, LegacyTwoVars}

BatchPaths == {Path("", "a", "mat"), Path("", "a", "MAT"), Path("", "b", "mat"),
               Path("", "notes", "txt"), Path("sub", "a", "mat")}

\* os.walk is top-down: the files of the root come before those of its subdirectories;
\* the order inside one directory is the platform's
WalkOrdered(t) ==
    /\ \A p, q \in 1..Len(t) : p # q => t[p].key # t[q].key
    /\ \A p, q \in 1..Len(t) : (t[p].key.dir = "" /\ t[q].key.dir # "") => p < q

Trees ==
    {t \in UNION {[1..n -> {Item(path, c) : path \in BatchPaths, c \in BatchContents}] : n \in 0..MaxFiles} :
        /\ WalkOrdered(t)
        /\ \A p \in 1..Len(t) : ~IsMatName(t[p].key) => t[p].val = CorruptFile}

\* what may already sit under the output root: nothing, or a directory named a.npy
InitialOutDirs == {{}, {RootDir, Path("", "a", "npy")}}

----------------------------------------------------------------------------
(* The batch run: python mat_to_npy.py -i <input> -o <output> *)

NoCall == [file |-> CorruptFile, variable_name |-> NoName]
NoReturn == [returned |-> FALSE, val |-> <<>>]

Init ==
    /\ pc = "start"
    /\ tree \in Trees
    /\ outdirs \in InitialOutDirs
    /\ outfiles = <<>>
    /\ mat_files = <<>>
    /\ idx = 0
    /\ results = <<>>
    /\ calls = <<>>
    /\ stdout = <<>>
    /\ arg = NoCall
    /\ ret = NoReturn

Next ==
    \/ Discover
    \/ MakeDirs
    \/ Iterate
    \/ SaveDetailedReport
    \/ Return

Spec == Init /\ [][Next]_vars

----------------------------------------------------------------------------
(* Single calls of the converter's methods on one file *)

TestPath == Path("", "test", "mat")

InitApi ==
    /\ pc = "call"
    /\ arg \in [file : ApiFiles, variable_name : ApiNames]
    /\ tree = <<>>
    /\ outdirs \in {{}, {RootDir, Path("", "test", "npy")}}
    /\ outfiles = <<>>
    /\ mat_files = <<>>
    /\ idx = 0
    /\ results = <<>>
    /\ calls = <<>>
    /\ stdout = <<>>
    /\ ret = [op |-> "none"]

CallDetect ==
    /\ pc = "call"
    /\ ret' = [op |-> "detect", out |-> detect_mat_version(arg.file)]
    /\ pc' = "returned"
    /\ UNCHANGED <<tree, outdirs, outfiles, mat_files, idx, results, calls, stdout, arg>>

CallInspect ==
    /\ pc = "call"
    /\ ret' = [op |-> "inspect", out |-> inspect_mat_file_deep(arg.file)]
    /\ pc' = "returned"
    /\ UNCHANGED <<tree, outdirs, outfiles, mat_files, idx, results, calls, stdout, arg>>

CallLoad ==
    /\ pc = "call"
    /\ ret' = [op |-> "load", out |-> load_mat_correctly(arg.file, arg.variable_name)]
    /\ pc' = "returned"
    /\ UNCHANGED <<tree, outdirs, outfiles, mat_files, idx, results, calls, stdout, arg>>

CallConvert ==
    /\ pc = "call"
    /\ arg.variable_name = NoName
    /\ \E out \in {convert_and_verify(TestPath, arg.file, NonePath, outdirs, outfiles)} :
           /\ ret' = [op |-> "convert", out |-> out]
           /\ outdirs' = out.dirs
           /\ outfiles' = out.files
    /\ pc' = "returned"
    /\ UNCHANGED <<tree, mat_files, idx, results, calls, stdout, arg>>

\* a second pass: convert_and_verify on the output file the first pass left, the output
\* root taken as input root, so that the target path is the file's own path
CallConvertOutput ==
    /\ pc = "returned"
    /\ ret.op = "convert"
    /\ WithSuffixNpy(TestPath) \in DictKeys(outfiles)
    /\ \E out \in {convert_and_verify(WithSuffixNpy(TestPath), DictGet(outfiles, WithSuffixNpy(TestPath)),
                                      NonePath, outdirs, outfiles)} :
           /\ ret' = [op |-> "reconvert", out |-> out, first |-> ret.out.result]
           /\ outdirs' = out.dirs
           /\ outfiles' = out.files
    /\ pc' = "reconverted"
    /\ UNCHANGED <<tree, mat_files, idx, results, calls, stdout, arg>>

NextApi ==
    \/ CallDetect
    \/ CallInspect
    \/ CallLoad
    \/ CallConvert
    \/ CallConvertOutput

SpecApi == InitApi /\ [][NextApi]_vars

----------------------------------------------------------------------------
(* compute_array_hash on pairs of arrays of one shape and dtype *)

MaxHashLen == 2

\* float64 values in units of 1e-7 around the 6-decimal rounding boundaries, and -0.0
HashBase == {Fin(-5), Fin(-4), Fin(0), Fin(4), Fin(5), Fin(6), Fin(15), Fin(FloatOne + 4),
             [k |-> "nzero", v |-> 0]}

\* differences below 1e-6 in absolute value
HashDeltas == {-9, -1, 0, 1, 9}

\* the pairs of elements: a value and the value moved by a difference; -0.0 only with itself
\* and with the zeros
HashElemPairs ==
    {<<x, Fin(x.v + d)>> : x \in {y \in HashBase : y.k = "fin"}, d \in HashDeltas}
    \cup {<<[k |-> "nzero", v |-> 0], y>> : y \in {[k |-> "nzero", v |-> 0], Fin(0)}}

\* two float64 arrays of length n from a sequence of element pairs
HashPair(n, ps) ==
    [a |-> NdArray("float64", <<n>>, [p \in 1..n |-> ps[p][1]]),
     b |-> NdArray("float64", <<n>>, [p \in 1..n |-> ps[p][2]])]

\* two integer arrays, equal or not
HashIntPairs(n) ==
    {[a |-> Iota("uint8", <<n>>), b |-> Iota("uint8", <<n>>)],
     [a |-> Iota("uint8", <<n>>), b |-> Const("uint8", <<n>>)]}

InitHash ==
    /\ pc = "call"
    /\ \/ \E n \in 0..MaxHashLen : \E ps \in [1..n -> HashElemPairs] : arg = HashPair(n, ps)
       \/ \E n \in 1..MaxHashLen : arg \in HashIntPairs(n)
    /\ tree = <<>>
    /\ outdirs = {}
    /\ outfiles = <<>>
    /\ mat_files = <<>>
    /\ idx = 0
    /\ results = <<>>
    /\ calls = <<>>
    /\ stdout = <<>>
    /\ ret = [op |-> "none"]

\* compute_array_hash on each of the two arrays
CallHash ==
    /\ pc = "call"
    /\ ret' = [op |-> "hash", a |-> ComputeArrayHash(arg.a), b |-> ComputeArrayHash(arg.b),
               again |-> ComputeArrayHash(arg.a)]
    /\ pc' = "returned"
    /\ UNCHANGED <<tree, outdirs, outfiles, mat_files, idx, results, calls, stdout, arg>>

NextHash == CallHash

SpecHash == InitHash /\ [][NextHash]_vars

----------------------------------------------------------------------------
(* save_detailed_report on the result sets a batch can hand it *)

ReportFile(i) == Path("", "f" \o ToString(i), "mat")

\* the records convert_and_verify returns, by outcome: success, transpose warning, value
\* mismatch, type mismatch, an exception whose message quotes the file's own target path
ResultOfKind(kind, path) ==
    CASE kind = "ok" -> [NewResult(path) EXCEPT !.success = TRUE]
      [] kind = "warning" ->
            [NewResult(path) EXCEPT
                !.warnings = <<ErrMsg("Arrays differ but one is transposed of the other", NonePath)>>]
      [] kind = "different" ->
            [NewResult(path) EXCEPT
                !.errors = <<ErrMsg("Arrays are different (not just transposed)", NonePath)>>]
      [] kind = "types" ->
            [NewResult(path) EXCEPT !.errors = <<ErrMsg("Types differ: dict vs ndarray", NonePath)>>]
      [] OTHER ->
            Caught(NewResult(path), [type |-> "IsADirectoryError", text |-> "Is a directory"],
                   WithSuffixNpy(path), "save")

Repeat(kind, n) == [p \in 1..n |-> kind]

\* the outcomes of up to MaxReportFiles files, grouped by kind, in either order
KindSeqs ==
    UNION {{Repeat("isdir", c[1]) \o Repeat("different", c[2]) \o Repeat("types", c[3])
              \o Repeat("warning", c[4]) \o Repeat("ok", c[5]),
            Repeat("ok", c[5]) \o Repeat("warning", c[4]) \o Repeat("types", c[3])
              \o Repeat("different", c[2]) \o Repeat("isdir", c[1])} :
           c \in {d \in [1..5 -> 0..MaxReportFiles] :
                    d[1] + d[2] + d[3] + d[4] + d[5] <= MaxReportFiles}}

InitReport ==
    /\ pc = "loop"
    /\ \E kinds \in KindSeqs :
          /\ mat_files = [p \in 1..Len(kinds) |-> ReportFile(p)]
          /\ results = [p \in 1..Len(kinds) |->
                          Item(ResultKey(ReportFile(p)), ResultOfKind(kinds[p], ReportFile(p)))]
          /\ calls = [p \in 1..Len(kinds) |-> ReportFile(p)]
          /\ idx = Len(kinds)
    /\ tree = <<>>
    /\ outdirs = {RootDir}
    /\ outfiles = <<>>
    /\ stdout = <<>>
    /\ arg = NoCall
    /\ ret = NoReturn

NextReport == SaveDetailedReport

SpecReport == InitReport /\ [][NextReport]_vars

----------------------------------------------------------------------------
(* Claims *)

\* the exception a stage of convert_and_verify raises on this file, if one does: the
\* loader's, else that of np.save on the derived target path
LoadOf(path) == load_mat_correctly(DictGet(tree, path), NoName)

TargetOf(path) == WithSuffixNpy(path)

SaveFails(path) ==
    \/ TargetOf(path) \in outdirs
    \/ HoldsReference(LoadOf(path).data)

StageRaises(path) == LoadOf(path).raised \/ SaveFails(path)

StageMessage(path) ==
    IF LoadOf(path).raised THEN ErrMsg(LoadOf(path).exc.text, NonePath)
    ELSE IF TargetOf(path) \in outdirs THEN ErrMsg("Is a directory", TargetOf(path))
    ELSE ErrMsg("cannot pickle", NonePath)

\* C1: convert_and_verify never raises to the batch loop; a file one of whose stages raises
\* gets a record with success = false, the exception's message among its errors and a
\* captured stack trace; and the loop goes on, so that at the end every discovered file,
\* also one after a failing file, has its result entry
C1_NeverRaisesAndContinues ==
    /\ pc # "raised"
    /\ \A p \in 1..Len(results) :
          StageRaises(results[p].key) =>
              /\ ~results[p].val.success
              /\ \E e \in 1..Len(results[p].val.errors) :
                    results[p].val.errors[e] = StageMessage(results[p].key)
              /\ results[p].val.has_traceback
              /\ results[p].val.traceback.text = StageMessage(results[p].key).text
    /\ pc = "loop" => \A q \in 1..idx : mat_files[q] \in DictKeys(results)
    /\ (pc \in {"summary", "done"} /\ mat_files # <<>>) =>
          \A q \in 1..Len(mat_files) : mat_files[q] \in DictKeys(results)

\* a finished batch in which a file whose stage raised is followed by a file that succeeded
C1_Witness ==
    /\ pc = "done"
    /\ Len(results) = 2
    /\ StageRaises(results[1].key)
    /\ results[1].val.has_traceback
    /\ results[2].val.success

\* C4 (state part): the files handed to convert_and_verify so far are the first idx
\* discovered files, each once and in discovery order, and the result mapping holds exactly
\* one entry for each of them; at the end it holds exactly one entry per discovered file
C4_Sequential ==
    /\ Len(calls) <= Len(mat_files)
    /\ calls = SubSeq(mat_files, 1, Len(calls))
    /\ pc \in {"loop", "summary", "done"} => Len(calls) = idx
    /\ Len(results) = Len(calls)
    /\ \A q \in 1..Len(results) : results[q].key = calls[q] /\ results[q].val.input_file = calls[q]
    /\ (pc \in {"summary", "done"} /\ mat_files # <<>>) =>
          /\ Len(results) = Len(mat_files)
          /\ DictKeys(results) = Range(mat_files)

\* C4 (step part): a step hands at most one file to convert_and_verify, records that file's
\* result in the same step, and never removes or replaces an entry already recorded
C4_Step ==
    /\ Len(calls') \in {Len(calls), Len(calls) + 1}
    /\ Len(results') = Len(results) + (Len(calls') - Len(calls))
    /\ SubSeq(results', 1, Len(results)) = results

\* C4: files are processed strictly sequentially in discovery order, each exactly once, its
\* result recorded before the next file starts, the mapping growing by one entry per file
C4_SequentialOnce == []C4_Sequential /\ [][C4_Step]_vars

\* a finished batch of two files with the same name in different directories, the first of
\* which failed
C4_Witness ==
    /\ pc = "done"
    /\ Len(mat_files) = 2
    /\ mat_files[1].stem = mat_files[2].stem
    /\ mat_files[1].ext = mat_files[2].ext
    /\ ~results[1].val.success
    /\ Len(results) = 2

\* C5: a batch that discovers no .mat file returns an empty result set after the 'no files
\* found' notice, without raising, creating a directory or writing the report
C5_EmptyRun ==
    (pc # "start" /\ Discovered(tree) = <<>>) =>
        /\ pc = "done"
        /\ ret = [returned |-> TRUE, val |-> <<>>]
        /\ stdout = <<"begin", "no_files_found">>
        /\ outdirs \in InitialOutDirs
        /\ outfiles = <<>>
        /\ calls = <<>>

\* a finished run over an input root that holds a file, but none with the .mat extension,
\* and an output root that does not exist
C5_Witness ==
    /\ pc = "done"
    /\ tree # <<>>
    /\ Discovered(tree) = <<>>
    /\ outdirs = {}
    /\ ret.returned

\* the report file as written, and the error messages of all files
WrittenReport == DictGet(outfiles, ReportPath)

RECURSIVE HowMany(_, _)
HowMany(flags, p) == IF p = 0 THEN 0 ELSE (IF flags[p] THEN 1 ELSE 0) + HowMany(flags, p - 1)

\* occurrences of message m in the errors lists of all results
Occurrences(m) ==
    HowMany([p \in 1..Len(results) |-> \E e \in 1..Len(results[p].val.errors) :
                                          results[p].val.errors[e] = m],
            Len(results))

AllErrorMessages == UNION {Range(results[p].val.errors) : p \in 1..Len(results)}

\* C6: in the report written, total_files is the number of results; successful,
\* with_warnings and with_errors count the results with success, with a non-empty warnings
\* list and with a non-empty errors list; common_issues has at most ten entries, each a
\* distinct error message with its number of occurrences, and no message left out occurs
\* more often than one that is included
C6_ReportCounts ==
    (pc = "summary") =>
        /\ ReportPath \in DictKeys(outfiles)
        /\ WrittenReport.conversion_details = results
        /\ WrittenReport.summary.total_files = Len(results)
        /\ WrittenReport.summary.successful =
              HowMany([p \in 1..Len(results) |-> results[p].val.success], Len(results))
        /\ WrittenReport.summary.with_warnings =
              HowMany([p \in 1..Len(results) |-> Len(results[p].val.warnings) > 0], Len(results))
        /\ WrittenReport.summary.with_errors =
              HowMany([p \in 1..Len(results) |-> Len(results[p].val.errors) > 0], Len(results))
        /\ LET issues == WrittenReport.summary.common_issues
           IN  /\ Len(issues) <= 10
               /\ Len(issues) = IF Cardinality(AllErrorMessages) < 10
                                THEN Cardinality(AllErrorMessages) ELSE 10
               /\ \A p, q \in 1..Len(issues) : p # q => issues[p].key # issues[q].key
               /\ \A p \in 1..Len(issues) :
                     /\ issues[p].key \in AllErrorMessages
                     /\ issues[p].val = Occurrences(issues[p].key)
               /\ \A m \in AllErrorMessages \ DictKeys(issues) :
                     \A p \in 1..Len(issues) : Occurrences(m) <= issues[p].val

\* a report over more than ten distinct error messages, one of them occurring twice and
\* recorded after ten others
C6_Witness ==
    /\ pc = "summary"
    /\ Cardinality(AllErrorMessages) > 10
    /\ Len(WrittenReport.summary.common_issues) = 10
    /\ \E m \in AllErrorMessages :
          /\ Occurrences(m) = 2
          /\ m \in DictKeys(WrittenReport.summary.common_issues)
          /\ results[1].val.errors # <<>>
          /\ m \notin Range(results[1].val.errors)


----------------------------------------------------------------------------
(* Claims about single calls (SpecApi) *)

ConvertResult == ret.out.result

\* C2: when convert_and_verify reaches the comparison of two plain arrays the outcome is
\* one of three classes in priority order: values_equal gives success with no warning and
\* no error, also when transposed_equal holds; otherwise transposed_equal gives the
\* transpose warning alone, success staying false; otherwise the 'arrays are different'
\* error alone, success staying false
C2_ThreeClasses ==
    (ret.op = "convert" /\ ConvertResult.verification.type = "array") =>
        /\ ~ret.out.raised
        /\ ConvertResult.verification.values_equal =>
              /\ ConvertResult.success
              /\ ConvertResult.warnings = <<>>
              /\ ConvertResult.errors = <<>>
        /\ (~ConvertResult.verification.values_equal
              /\ ConvertResult.verification.transposed_equal) =>
              /\ ~ConvertResult.success
              /\ ConvertResult.warnings =
                    <<ErrMsg("Arrays differ but one is transposed of the other", NonePath)>>
              /\ ConvertResult.errors = <<>>
        /\ (~ConvertResult.verification.values_equal
              /\ ~ConvertResult.verification.transposed_equal) =>
              /\ ~ConvertResult.success
              /\ ConvertResult.warnings = <<>>
              /\ ConvertResult.errors =
                    <<ErrMsg("Arrays are different (not just transposed)", NonePath)>>

\* a conversion whose comparison found the values unequal and the transpose equal
C2_Witness ==
    /\ ret.op = "convert"
    /\ ConvertResult.verification.type = "array"
    /\ ~ConvertResult.verification.values_equal
    /\ ConvertResult.verification.transposed_equal
    /\ ConvertResult.warnings # <<>>
    /\ ~ConvertResult.success

\* a conversion that succeeded although the transposed comparison passed as well
C2_SuccessBeforeTranspose ==
    /\ ret.op = "convert"
    /\ ConvertResult.verification.type = "array"
    /\ ConvertResult.verification.values_equal
    /\ ConvertResult.verification.transposed_equal
    /\ ConvertResult.success

\* a conversion whose comparison found neither
C2_ErrorClass ==
    /\ ret.op = "convert"
    /\ ConvertResult.verification.type = "array"
    /\ ~ConvertResult.verification.values_equal
    /\ ~ConvertResult.verification.transposed_equal
    /\ ConvertResult.errors # <<>>

\* C3: detect_mat_version gives 'v7.3' whenever h5py opens the file, otherwise
\* 'v7.0_or_older' whenever loadmat reads it, otherwise 'unknown'; whichever reader fails
\* and however, it returns one of the three and does not raise
C3_DetectTotal ==
    (ret.op = "detect") =>
        /\ ~ret.out.raised
        /\ ret.out.val \in {"v7.3", "v7.0_or_older", "unknown"}
        /\ ~H5pyFile(arg.file).raised => ret.out.val = "v7.3"
        /\ (H5pyFile(arg.file).raised /\ ~Loadmat(arg.file).raised) =>
              ret.out.val = "v7.0_or_older"
        /\ (H5pyFile(arg.file).raised /\ Loadmat(arg.file).raised) => ret.out.val = "unknown"

\* detection of a file neither reader accepts
C3_Witness ==
    /\ ret.op = "detect"
    /\ H5pyFile(arg.file).raised
    /\ Loadmat(arg.file).raised
    /\ ~ret.out.raised
    /\ ret.out.val = "unknown"


\* the datasets of an hdf5 file, in key order
Datasets(file) == SeqFilter(file.entries, {e \in Range(file.entries) : e.kind = "dataset"})

\* the name -> data mapping load_mat_correctly builds for a file before it selects
LoadedSet(file) ==
    IF file.fmt = "hdf5"
    THEN [p \in 1..Len(Datasets(file)) |->
             Item(Datasets(file)[p].name,
                  LayoutStep(Datasets(file)[p].name,
                             ResolveDataset(Datasets(file)[p].name, Datasets(file)[p].raw).data).data)]
    ELSE [p \in 1..Len(SeqFilter(file.entries, {e \in Range(file.entries) : ~IsDunder(e.name)})) |->
             Item(SeqFilter(file.entries, {e \in Range(file.entries) : ~IsDunder(e.name)})[p].name,
                  SeqFilter(file.entries, {e \in Range(file.entries) : ~IsDunder(e.name)})[p].raw)]

Supplied == arg.variable_name # NoName

\* C7: in both formats, a supplied name that is among the loaded variables selects exactly
\* that variable's data with selected_variable equal to the name; otherwise a single
\* loaded variable is returned under its own name; otherwise (none or several variables,
\* a supplied name that is absent included) the whole mapping is returned with
\* selected_variable = "dict"
C7_Selection ==
    (ret.op = "load" /\ ~ret.out.raised) =>
        /\ (Supplied /\ arg.variable_name[1] \in DictKeys(LoadedSet(arg.file))) =>
              /\ ret.out.data = DictGet(LoadedSet(arg.file), arg.variable_name[1])
              /\ ret.out.meta.selected_variable = arg.variable_name[1]
        /\ (~(Supplied /\ arg.variable_name[1] \in DictKeys(LoadedSet(arg.file)))
              /\ Len(LoadedSet(arg.file)) = 1) =>
              /\ ret.out.data = LoadedSet(arg.file)[1].val
              /\ ret.out.meta.selected_variable = LoadedSet(arg.file)[1].key
        /\ (~(Supplied /\ arg.variable_name[1] \in DictKeys(LoadedSet(arg.file)))
              /\ Len(LoadedSet(arg.file)) # 1) =>
              /\ ret.out.data = DictValue(LoadedSet(arg.file))
              /\ ret.out.meta.selected_variable = "dict"

\* a load of a file with several variables, the second of which was named by the caller
C7_Witness ==
    /\ ret.op = "load"
    /\ ~ret.out.raised
    /\ Len(LoadedSet(arg.file)) = 2
    /\ Supplied
    /\ arg.variable_name[1] = LoadedSet(arg.file)[2].key
    /\ ret.out.meta.selected_variable = arg.variable_name[1]
    /\ ret.out.data = LoadedSet(arg.file)[2].val
    /\ ret.out.data # LoadedSet(arg.file)[1].val

\* a load that fell back to the whole mapping because the supplied name is absent
C7_AbsentName ==
    /\ ret.op = "load"
    /\ ~ret.out.raised
    /\ Supplied
    /\ arg.variable_name[1] \notin DictKeys(LoadedSet(arg.file))
    /\ Len(LoadedSet(arg.file)) = 2
    /\ ret.out.meta.selected_variable = "dict"


\* the value of variable name in what a load returned: the returned data itself when that
\* variable was selected, its item of the returned mapping when the mapping was
IsReturned(name) ==
    \/ ret.out.meta.selected_variable = name
    \/ ret.out.meta.selected_variable = "dict" /\ name \in DictKeys(ret.out.data.elems)

ReturnedVar(name) ==
    IF ret.out.meta.selected_variable = "dict" THEN DictGet(ret.out.data.elems, name)
    ELSE ret.out.data

\* out is a with all axes reversed, element by element, for rank 2 and rank 3
IsAllAxesTranspose(out, a) ==
    /\ out.tag = a.tag
    /\ out.dtype = a.dtype
    /\ Len(out.elems) = Len(a.elems)
    /\ Len(a.shape) = 2 =>
          /\ out.shape = <<a.shape[2], a.shape[1]>>
          /\ \A i \in 1..a.shape[1] : \A j \in 1..a.shape[2] :
                out.elems[(j - 1) * a.shape[1] + i] = a.elems[(i - 1) * a.shape[2] + j]
    /\ Len(a.shape) = 3 =>
          /\ out.shape = <<a.shape[3], a.shape[2], a.shape[1]>>
          /\ \A i \in 1..a.shape[1] : \A j \in 1..a.shape[2] : \A k \in 1..a.shape[3] :
                out.elems[((k - 1) * a.shape[2] + (j - 1)) * a.shape[1] + i]
                   = a.elems[((i - 1) * a.shape[2] + (j - 1)) * a.shape[3] + k]

ResolvedOf(e) == ResolveDataset(e.name, e.raw).data

HasRank2(e) == IsNdArray(ResolvedOf(e)) /\ Len(ResolvedOf(e).shape) >= 2

\* number of entries of meta['loaded_variables'] for variable name
EntriesFor(name) ==
    Cardinality({p \in 1..Len(ret.out.meta.loaded_variables) :
                    ret.out.meta.loaded_variables[p].name = name})

\* C8: loading an hdf5 file, every dataset whose resolved value is an array of rank >= 2
\* is returned as the all-axes transpose of that value (raw [[1,4],[2,5],[3,6]] comes back
\* as [[1,2,3],[4,5,6]]) and has one entry of loaded_variables with the shape and dtype
\* before the transpose; a value of rank < 2 is returned unchanged and has no entry;
\* transpose_applied is true exactly when some loaded variable had rank >= 2
C8_LayoutTransform ==
    (ret.op = "load" /\ arg.file.fmt = "hdf5" /\ ~ret.out.raised) =>
        /\ \A e \in Range(Datasets(arg.file)) :
              /\ HasRank2(e) =>
                    /\ EntriesFor(e.name) = 1
                    /\ \E p \in 1..Len(ret.out.meta.loaded_variables) :
                          ret.out.meta.loaded_variables[p] =
                             [name |-> e.name, shape_key |-> "original_shape",
                              shape |-> ResolvedOf(e).shape, dtype |-> ResolvedOf(e).dtype]
                    /\ IsReturned(e.name) => IsAllAxesTranspose(ReturnedVar(e.name), ResolvedOf(e))
              /\ ~HasRank2(e) =>
                    /\ EntriesFor(e.name) = 0
                    /\ IsReturned(e.name) => ReturnedVar(e.name) = ResolvedOf(e)
        /\ ret.out.meta.transpose_applied <=> \E e \in Range(Datasets(arg.file)) : HasRank2(e)
        /\ (arg.file.entries =
              <<[name |-> "data", kind |-> "dataset",
                 raw |-> [tag |-> "ndarray", dtype |-> "float64", shape |-> <<3, 2>>,
                          elems |-> <<Fin(FloatOne), Fin(4 * FloatOne), Fin(2 * FloatOne),
                                      Fin(5 * FloatOne), Fin(3 * FloatOne), Fin(6 * FloatOne)>>]]>>) =>
              ret.out.data =
                 [tag |-> "ndarray", dtype |-> "float64", shape |-> <<2, 3>>,
                  elems |-> <<Fin(FloatOne), Fin(2 * FloatOne), Fin(3 * FloatOne),
                              Fin(4 * FloatOne), Fin(5 * FloatOne), Fin(6 * FloatOne)>>]

\* a load of a rank-3 dataset with unequal dimensions, returned with its axes reversed
C8_Witness ==
    /\ ret.op = "load"
    /\ arg.file.fmt = "hdf5"
    /\ ~ret.out.raised
    /\ Len(Datasets(arg.file)) = 1
    /\ HasRank2(Datasets(arg.file)[1])
    /\ ResolvedOf(Datasets(arg.file)[1]).shape = <<1, 2, 3>>
    /\ ret.out.data.shape = <<3, 2, 1>>
    /\ ret.out.data.elems # ResolvedOf(Datasets(arg.file)[1]).elems
    /\ ret.out.meta.transpose_applied

\* a load of the 3x2 column-major scenario file
C8_Scenario ==
    /\ ret.op = "load"
    /\ arg.file = H5Scenario
    /\ ret.out.data = Iota("float64", <<2, 3>>)
    /\ ret.out.meta.transpose_applied

\* a load of two datasets of which only one has rank >= 2
C8_Mixed ==
    /\ ret.op = "load"
    /\ arg.file.fmt = "hdf5"
    /\ ~ret.out.raised
    /\ \E e \in Range(Datasets(arg.file)) : HasRank2(e)
    /\ \E e \in Range(Datasets(arg.file)) :
          ~HasRank2(e) /\ IsNdArray(ResolvedOf(e)) /\ Len(ResolvedOf(e).elems) > 1
                       /\ IsReturned(e.name)


\* the file's single key is a dataset holding one reference that leads to no dataset
SingleUnresolvableReference ==
    /\ arg.file.fmt = "hdf5"
    /\ Len(arg.file.entries) = 1
    /\ arg.file.entries[1].kind = "dataset"
    /\ arg.file.entries[1].raw.tag = "reference"
    /\ RefObjects[arg.file.entries[1].raw.elems[1].v].kind # "dataset"

\* C9: for an hdf5 file whose single dataset is a reference that cannot be resolved to a
\* dataset, load_mat_correctly does not raise, returns the raw reference unconverted and
\* records a warning naming the variable; inspect_mat_file_deep reports the variable with
\* is_reference = true and lists it among the issues
C9_UnresolvableReferenceKept ==
    SingleUnresolvableReference =>
        /\ (ret.op = "load") =>
              /\ ~ret.out.raised
              /\ ret.out.data = arg.file.entries[1].raw
              /\ \E w \in 1..Len(ret.out.meta.warnings) :
                    ret.out.meta.warnings[w].name = arg.file.entries[1].name
        /\ (ret.op = "inspect") =>
              /\ \E p \in 1..Len(ret.out.variables) :
                    /\ ret.out.variables[p].name = arg.file.entries[1].name
                    /\ ret.out.variables[p].is_reference
              /\ \E p \in 1..Len(ret.out.issues) :
                    ret.out.issues[p].name = arg.file.entries[1].name

\* the part of C9 the code keeps: a reference to an object that is not a dataset
C9_ReferenceToGroupKept ==
    (SingleUnresolvableReference
       /\ RefObjects[arg.file.entries[1].raw.elems[1].v].kind = "group"
       /\ ret.op = "load") =>
        /\ ~ret.out.raised
        /\ ret.out.data = arg.file.entries[1].raw
        /\ ret.out.meta.warnings = <<Warning("is a reference to non-dataset", arg.file.entries[1].name)>>

\* a load of a file whose single dataset is a null reference: the lookup raised
C9_NullReferenceRaises ==
    /\ SingleUnresolvableReference
    /\ RefObjects[arg.file.entries[1].raw.elems[1].v].kind = "null"
    /\ ret.op = "load"
    /\ ret.out.raised
    /\ ret.out.exc.type = "ValueError"


\* a dataset holding an array of references
IsRefArray(e) == e.kind = "dataset" /\ e.raw.tag = "ndarray" /\ e.raw.dtype = "object"

\* every element leads to a dataset
AllDereference(e) ==
    \A p \in 1..Len(e.raw.elems) : RefObjects[e.raw.elems[p].v].kind = "dataset"

\* the values read fit the original shape: one shape for all, as many elements in total
Reassembles(e) ==
    /\ \A p \in 1..Len(e.raw.elems) :
          RefObjects[e.raw.elems[p].v].raw.shape = RefObjects[e.raw.elems[1].v].raw.shape
    /\ Len(e.raw.elems) * Product(RefObjects[e.raw.elems[1].v].raw.shape) = Product(e.raw.shape)

\* the value of element p of the reassembled array: the inputs that reassemble hold
\* one-element datasets
TargetElem(e, p) == RefObjects[e.raw.elems[p].v].raw.elems[1]

WarningsFor(name) ==
    Cardinality({w \in 1..Len(ret.out.meta.warnings) : ret.out.meta.warnings[w].name = name})

\* x is a after the layout step: a itself below rank 2, a with its two axes swapped at rank 2
AfterLayout(x, a) ==
    IF Len(a.shape) < 2 THEN x = a
    ELSE /\ x.tag = a.tag
         /\ x.dtype = a.dtype
         /\ x.shape = <<a.shape[2], a.shape[1]>>
         /\ Len(x.elems) = Len(a.elems)
         /\ \A i \in 1..a.shape[1] : \A j \in 1..a.shape[2] :
               x.elems[(j - 1) * a.shape[1] + i] = a.elems[(i - 1) * a.shape[2] + j]

\* no dataset of the file is a single reference to nothing (C9's case)
NoNullSingleReference ==
    \A e \in Range(Datasets(arg.file)) :
        e.raw.tag = "reference" => RefObjects[e.raw.elems[1].v].kind # "null"

\* C10: dereferencing an hdf5 dataset that holds an array of references is all-or-nothing:
\* either every element is dereferenced and the values are reassembled into an array of
\* the original shape, without a warning; or, the dereference of some element or the
\* reassembly failing, the raw reference array is what the variable resolves to, exactly
\* one warning names the variable, and the load does not raise but goes on to the
\* remaining variables
C10_AllOrNothing ==
    (ret.op = "load" /\ arg.file.fmt = "hdf5" /\ NoNullSingleReference) =>
        /\ ~ret.out.raised
        /\ \A e \in Range(Datasets(arg.file)) :
              IsRefArray(e) =>
                 /\ (AllDereference(e) /\ Reassembles(e)) =>
                       /\ WarningsFor(e.name) = 0
                       /\ IsReturned(e.name) =>
                             AfterLayout(ReturnedVar(e.name),
                                         [tag |-> "ndarray",
                                          dtype |-> RefObjects[e.raw.elems[1].v].raw.dtype,
                                          shape |-> e.raw.shape,
                                          elems |-> [p \in 1..Len(e.raw.elems) |-> TargetElem(e, p)]])
                 /\ ~(AllDereference(e) /\ Reassembles(e)) =>
                       /\ WarningsFor(e.name) = 1
                       /\ IsReturned(e.name) => AfterLayout(ReturnedVar(e.name), e.raw)
        /\ (\E e \in Range(Datasets(arg.file)) : IsRefArray(e)) =>
              /\ Len(ret.out.meta.warnings) =
                    Cardinality({e \in Range(Datasets(arg.file)) :
                                    \/ IsRefArray(e) /\ ~(AllDereference(e) /\ Reassembles(e))
                                    \/ e.raw.tag = "reference"
                                          /\ RefObjects[e.raw.elems[1].v].kind # "dataset"})
              /\ \A e \in Range(Datasets(arg.file)) :
                    \/ ret.out.meta.selected_variable = e.name
                    \/ ret.out.meta.selected_variable = "dict"
                          /\ e.name \in DictKeys(ret.out.data.elems)
                    \/ /\ Supplied
                       /\ ret.out.meta.selected_variable = arg.variable_name[1]
                       /\ arg.variable_name[1] \in {d.name : d \in Range(Datasets(arg.file))}

\* a load of two datasets, the first an array of references one of which leads nowhere:
\* the array is returned as read, one warning names it, and the second dataset is loaded
C10_Witness ==
    /\ ret.op = "load"
    /\ arg.file.fmt = "hdf5"
    /\ Len(Datasets(arg.file)) = 2
    /\ IsRefArray(Datasets(arg.file)[1])
    /\ ~AllDereference(Datasets(arg.file)[1])
    /\ ~ret.out.raised
    /\ ret.out.meta.selected_variable = "dict"
    /\ Len(ret.out.data.elems) = 2
    /\ ret.out.data.elems[1].val.dtype = "object"
    /\ ret.out.data.elems[2].val = Transpose(Datasets(arg.file)[2].raw)
    /\ WarningsFor(Datasets(arg.file)[1].name) = 1

\* a load of an array of references all of which were dereferenced and reassembled
C10_AllDereferenced ==
    /\ ret.op = "load"
    /\ arg.file.fmt = "hdf5"
    /\ Len(Datasets(arg.file)) = 1
    /\ IsRefArray(Datasets(arg.file)[1])
    /\ Datasets(arg.file)[1].raw.shape = <<2, 1>>
    /\ ~ret.out.raised
    /\ ret.out.data = [tag |-> "ndarray", dtype |-> "float64", shape |-> <<1, 2>>,
                       elems |-> <<Fin(5 * FloatOne), Fin(6 * FloatOne)>>]
    /\ ret.out.meta.warnings = <<>>

\* a load in which every element was dereferenced but the reassembly failed
C10_ReassemblyFails ==
    /\ ret.op = "load"
    /\ arg.file.fmt = "hdf5"
    /\ Len(Datasets(arg.file)) = 1
    /\ IsRefArray(Datasets(arg.file)[1])
    /\ AllDereference(Datasets(arg.file)[1])
    /\ ~Reassembles(Datasets(arg.file)[1])
    /\ ~ret.out.raised
    /\ WarningsFor(Datasets(arg.file)[1].name) = 1
    /\ ret.out.data.dtype = "object"


----------------------------------------------------------------------------
(* Claims C11 and following *)

\* what convert_and_verify loaded from the file it was called on
Payload == load_mat_correctly(arg.file, NoName)

TestTarget == WithSuffixNpy(TestPath)

\* the conversion wrote its output file completely
Persisted ==
    /\ ret.op = "convert"
    /\ ~Payload.raised
    /\ TestTarget \in DictKeys(outfiles)
    /\ DictGet(outfiles, TestTarget).fmt = "npy"

\* the value np.load gives for the output file
ReadBack == NpLoad(outfiles, TestTarget)

\* a name -> array mapping went through the persist/read-back round trip
DictRoundTrip == Persisted /\ IsDict(Payload.data)

\* the names of the mapping np.save pickled into the output file
KeysReadBack == DictKeys(ReadBack.elems[1].v.elems)

KeysLoaded == DictKeys(Payload.data.elems)

\* C11: for a dictionary payload convert_and_verify reports success = true whenever the
\* key set is the same before and after the persist/read-back round trip, whatever the
\* values; when the key sets differ success stays false and the error lists the keys only
\* in the source and the keys only in the target
C11_DictSuccessByKeys ==
    DictRoundTrip =>
        /\ (KeysLoaded = KeysReadBack) => ConvertResult.success
        /\ (KeysLoaded # KeysReadBack) =>
              /\ ~ConvertResult.success
              /\ \E e \in 1..Len(ConvertResult.errors) :
                    /\ ConvertResult.errors[e].only_mat = KeysLoaded \ KeysReadBack
                    /\ ConvertResult.errors[e].only_npy = KeysReadBack \ KeysLoaded

\* the conversion of a file with two variables: the mapping is read back inside a 0-d
\* object array, so the record says the types differ
C11_DictReadBackAsArray ==
    /\ DictRoundTrip
    /\ Len(Payload.data.elems) = 2
    /\ KeysLoaded = KeysReadBack
    /\ IsNdArray(ReadBack)
    /\ ~ConvertResult.success
    /\ ConvertResult.errors = <<ErrMsg("Types differ: dict vs ndarray", NonePath)>>


\* C12: every record convert_and_verify returns, also on the paths where a stage raised,
\* holds the fields success, warnings, errors, verification and the load metadata
C12_RecordFields ==
    (ret.op = "convert") =>
        /\ ~ret.out.raised
        /\ {"success", "warnings", "errors", "verification"} \subseteq DOMAIN ConvertResult
        /\ ConvertResult.has_load_meta

\* the part of C12 the code keeps: the four fields set at construction are in every
\* record, and the load metadata is in every record of a file whose load returned
C12_FieldsWhenLoaded ==
    (ret.op = "convert") =>
        /\ {"success", "warnings", "errors", "verification"} \subseteq DOMAIN ConvertResult
        /\ ~Payload.raised =>
              /\ ConvertResult.has_load_meta
              /\ ConvertResult.load_meta = Payload.meta

\* the record of a file whose load raised: the error and the stack trace are there, the
\* load metadata is not
C12_LoadRaisedNoMeta ==
    /\ ret.op = "convert"
    /\ Payload.raised
    /\ ~ret.out.raised
    /\ ~ConvertResult.has_load_meta
    /\ ConvertResult.has_traceback
    /\ ConvertResult.errors # <<>>


\* neither h5py nor scipy.io.loadmat accepts the file
NeitherReads == H5pyFile(arg.file).raised /\ Loadmat(arg.file).raised

\* C13 (state part): for a file neither reader accepts, detection gives 'unknown' without
\* raising; load_mat_correctly raises the legacy reader's exception and returns no data;
\* convert_and_verify returns a record with success = false whose error is that
\* exception's message, and no output file exists afterwards
C13_Unreadable ==
    NeitherReads =>
        /\ (ret.op = "detect") => (~ret.out.raised /\ ret.out.val = "unknown")
        /\ (ret.op = "load") =>
              /\ ret.out.raised
              /\ ret.out.exc = Loadmat(arg.file).exc
              /\ ret.out.data = NoneValue
        /\ (ret.op = "convert") =>
              /\ ~ret.out.raised
              /\ ~ConvertResult.success
              /\ ConvertResult.errors = <<ErrMsg(Loadmat(arg.file).exc.text, NonePath)>>
              /\ ConvertResult.has_traceback
              /\ ConvertResult.output_file = NonePath
              /\ outfiles = <<>>

\* C13 (step part): the call on such a file creates no directory and writes no file
C13_Step == NeitherReads => (outdirs' = outdirs /\ outfiles' = outfiles)

\* C13: an unreadable file is detected as 'unknown', its reader's exception leaves
\* load_mat_correctly and is recorded by convert_and_verify as the file's error, before any
\* target directory is created or any output file written
C13_UnreadablePropagates == []C13_Unreadable /\ [][C13_Step]_vars

\* the conversion of an unreadable file under an output root that does not exist yet
C13_Witness ==
    /\ NeitherReads
    /\ ret.op = "convert"
    /\ ~ConvertResult.success
    /\ ConvertResult.errors # <<>>
    /\ outdirs = {}
    /\ outfiles = <<>>


\* the keys of a legacy file that start and end with a double underscore
BookkeepingKeys == {"__header__", "__version__", "__globals__"}

\* the variables of a legacy file as the legacy reader produced them, bookkeeping aside
LegacyVars(file) ==
    SeqFilter(file.entries, {e \in Range(file.entries) : e.name \notin BookkeepingKeys})

\* C14: loading a legacy file applies no layout transform: every returned array is the
\* array the legacy reader produced, transpose_applied is false, no bookkeeping key is in
\* the returned data, the returned mapping or loaded_variables, and the bookkeeping keys
\* do not count when one variable is told from several
C14_LegacyUntouched ==
    (ret.op = "load" /\ arg.file.fmt = "legacy") =>
        /\ ~ret.out.raised
        /\ ~ret.out.meta.transpose_applied
        /\ ret.out.meta.selected_variable \notin BookkeepingKeys
        /\ \A p \in 1..Len(ret.out.meta.loaded_variables) :
              ret.out.meta.loaded_variables[p].name \notin BookkeepingKeys
        /\ IsDict(ret.out.data) =>
              /\ ret.out.meta.selected_variable = "dict"
              /\ Len(ret.out.data.elems) = Len(LegacyVars(arg.file))
              /\ \A p \in 1..Len(ret.out.data.elems) :
                    /\ ret.out.data.elems[p].key = LegacyVars(arg.file)[p].name
                    /\ ret.out.data.elems[p].val = LegacyVars(arg.file)[p].raw
        /\ ~IsDict(ret.out.data) =>
              \E p \in 1..Len(LegacyVars(arg.file)) :
                  /\ ret.out.meta.selected_variable = LegacyVars(arg.file)[p].name
                  /\ ret.out.data = LegacyVars(arg.file)[p].raw
        /\ (Len(LegacyVars(arg.file)) = 1) =>
              /\ ret.out.meta.selected_variable = LegacyVars(arg.file)[1].name
              /\ ret.out.data = LegacyVars(arg.file)[1].raw
        /\ (Len(LegacyVars(arg.file)) # 1
              /\ ~(Supplied /\ arg.variable_name[1] \in
                                  {LegacyVars(arg.file)[p].name : p \in 1..Len(LegacyVars(arg.file))})) =>
              IsDict(ret.out.data)

\* a load of a legacy file with three bookkeeping keys and one non-square variable: the
\* variable is returned alone and as read
C14_Witness ==
    /\ ret.op = "load"
    /\ arg.file.fmt = "legacy"
    /\ Len(arg.file.entries) = 4
    /\ Len(LegacyVars(arg.file)) = 1
    /\ arg.variable_name = NoName
    /\ LegacyVars(arg.file)[1].raw.shape = <<2, 3>>
    /\ ret.out.data = LegacyVars(arg.file)[1].raw
    /\ ret.out.data.shape = <<2, 3>>
    /\ ~ret.out.meta.transpose_applied
    /\ Len(ret.out.meta.loaded_variables) = 1


\* C15: after a file has been converted, converting its own output file through the same
\* pipeline gives a comparison with values_equal = true and a load with
\* transpose_applied = false
C15_RoundTripIdempotent ==
    (ret.op = "reconvert" /\ ret.first.success) =>
        /\ ~ret.out.raised
        /\ ret.out.result.verification.type = "array"
        /\ ret.out.result.verification.values_equal
        /\ ret.out.result.has_load_meta
        /\ ~ret.out.result.load_meta.transpose_applied

\* the second pass over the output of a successful conversion of the 2x3 legacy scenario:
\* neither reader accepts the .npy file, the record holds the legacy reader's error and
\* no comparison
C15_OutputNotReadable ==
    /\ ret.op = "reconvert"
    /\ arg.file = LegacyScenario
    /\ ret.first.success
    /\ ~ret.out.raised
    /\ ~ret.out.result.success
    /\ ret.out.result.verification = EmptyVerification
    /\ ~ret.out.result.has_load_meta
    /\ ret.out.result.errors = <<ErrMsg("Unknown mat file type", NonePath)>>


\* |x - y| < 1e-6 for two float elements (-0.0 counts as 0)
CloserThan1e6(x, y) == Abs(x.v - y.v) < 10

\* n * 1e-6 is the 6-decimal value nearest to x, halves going to the even n
NearestMicro(x, n) ==
    \/ Abs(x.v - 10 * n) < 5
    \/ Abs(x.v - 10 * n) = 5 /\ n % 2 = 0

IsNegative(x) == x.k = "nzero" \/ x.v < 0

\* x and y round to the same 6-decimal value, a zero of the same sign included
RoundAlike(x, y) ==
    \E n \in {x.v \div 10, x.v \div 10 + 1} :
        /\ NearestMicro(x, n)
        /\ NearestMicro(y, n)
        /\ (n = 0) => (IsNegative(x) <=> IsNegative(y))

\* C16 as stated: the hash is deterministic, and two floating arrays of one shape and
\* dtype whose corresponding elements all differ by less than 1e-6 get the same hash
C16_StableBelow1e6 ==
    (ret.op = "hash") =>
        /\ ret.a = ret.again
        /\ (IsFloating(arg.a.dtype)
              /\ arg.a.dtype = arg.b.dtype
              /\ arg.a.shape = arg.b.shape
              /\ \A p \in 1..Len(arg.a.elems) : CloserThan1e6(arg.a.elems[p], arg.b.elems[p])) =>
              ret.a = ret.b

\* C16 as amended: the hash is deterministic, and two floating arrays of one shape and
\* dtype whose corresponding elements round to the same 6-decimal values, zeros with the
\* same sign, get the same hash
C16_StableWhenRoundAlike ==
    (ret.op = "hash") =>
        /\ ret.a = ret.again
        /\ (arg.a = arg.b) => (ret.a = ret.b)
        /\ (IsFloating(arg.a.dtype)
              /\ arg.a.dtype = arg.b.dtype
              /\ arg.a.shape = arg.b.shape
              /\ \A p \in 1..Len(arg.a.elems) : RoundAlike(arg.a.elems[p], arg.b.elems[p])) =>
              ret.a = ret.b

\* two arrays that differ in every element, each pair rounding to one value: equal hashes
C16_Witness ==
    /\ ret.op = "hash"
    /\ IsFloating(arg.a.dtype)
    /\ Len(arg.a.elems) = 2
    /\ \A p \in 1..2 : /\ arg.a.elems[p] # arg.b.elems[p]
                       /\ RoundAlike(arg.a.elems[p], arg.b.elems[p])
    /\ arg.a.elems[1].v > FloatOne
    /\ ret.a = ret.b

\* two one-element arrays 1e-7 apart on the two sides of a rounding boundary: the hashes
\* differ
C16_AcrossBoundary ==
    /\ ret.op = "hash"
    /\ arg.a = NdArray("float64", <<1>>, <<Fin(5)>>)
    /\ arg.b = NdArray("float64", <<1>>, <<Fin(6)>>)
    /\ ret.a # ret.b


\* what inspect_mat_file_deep captures for the file that was loaded
Inspected == inspect_mat_file_deep(arg.file)

\* C17: for every variable of every file, the shape inspect_mat_file_deep captures equals
\* the shape of the variable's entry in loaded_variables; where a layout transform was
\* applied the entry holds the shape before the transform, transpose_applied is true and
\* the returned array has the reversed shape; also for variables stored as references
C17_ShapesAgree ==
    (ret.op = "load" /\ ~ret.out.raised) =>
        \A p \in 1..Len(ret.out.meta.loaded_variables) :
            /\ \E q \in 1..Len(Inspected.variables) :
                  Inspected.variables[q].name = ret.out.meta.loaded_variables[p].name
            /\ \A q \in 1..Len(Inspected.variables) :
                  (Inspected.variables[q].name = ret.out.meta.loaded_variables[p].name) =>
                      Inspected.variables[q].shape = ret.out.meta.loaded_variables[p].shape
            /\ (ret.out.meta.loaded_variables[p].shape_key = "original_shape") =>
                  /\ ret.out.meta.transpose_applied
                  /\ IsReturned(ret.out.meta.loaded_variables[p].name) =>
                        ReturnedVar(ret.out.meta.loaded_variables[p].name).shape =
                           Reverse(ret.out.meta.loaded_variables[p].shape)

\* a load of a file whose single dataset is a reference to a 3x2 dataset: inspection
\* captured the shape () of the reference, the entry of loaded_variables holds (3, 2)
C17_ReferenceShapeDiffers ==
    /\ ret.op = "load"
    /\ ~ret.out.raised
    /\ Len(arg.file.entries) = 1
    /\ arg.file.entries[1].raw.tag = "reference"
    /\ Inspected.variables[1].is_reference
    /\ Inspected.variables[1].shape = <<>>
    /\ Len(ret.out.meta.loaded_variables) = 1
    /\ ret.out.meta.loaded_variables[1].shape = <<3, 2>>
    /\ ret.out.data.shape = <<2, 3>>


\* the part of C17 the code keeps: the shapes agree for every variable that is not stored
\* as a single reference
C17_PlainShapesAgree ==
    (ret.op = "load" /\ ~ret.out.raised) =>
        \A p \in 1..Len(ret.out.meta.loaded_variables) :
            \A q \in 1..Len(Inspected.variables) :
                (/\ Inspected.variables[q].name = ret.out.meta.loaded_variables[p].name
                 /\ \A e \in Range(arg.file.entries) :
                       e.name = Inspected.variables[q].name => e.raw.tag # "reference") =>
                    Inspected.variables[q].shape = ret.out.meta.loaded_variables[p].shape


ReportWritten == ReportPath \in DictKeys(outfiles)

\* C18 (state part): nothing is converted before discovery has finished and the output
\* directory of every discovered file exists; the report exists only once every
\* discovered file has its result, and holds every per-file result; a non-empty run
\* that has ended has written it
C18_Phases ==
    /\ (pc = "start") => (mat_files = <<>> /\ calls = <<>> /\ ~ReportWritten)
    /\ (pc = "mkdirs") => (mat_files = Discovered(tree) /\ calls = <<>> /\ ~ReportWritten)
    /\ (calls # <<>> \/ pc \in {"loop", "summary"}) =>
          /\ mat_files = Discovered(tree)
          /\ \A q \in 1..Len(mat_files) : Parent(WithSuffixNpy(mat_files[q])) \in outdirs
    /\ ReportWritten =>
          /\ pc \in {"summary", "done"}
          /\ calls = mat_files
          /\ Len(results) = Len(mat_files)
          /\ \A q \in 1..Len(mat_files) : mat_files[q] \in DictKeys(results)
          /\ DictGet(outfiles, ReportPath).conversion_details = results
          /\ DictGet(outfiles, ReportPath).summary.total_files = Len(mat_files)
    /\ (pc \in {"summary", "done"} /\ mat_files # <<>>) => ReportWritten

\* C18 (step part): a step that converts a file finds every output directory in place and
\* no report yet; once the report is written no file is converted and the report is not
\* written again
C18_Step ==
    /\ (calls' # calls) =>
          /\ ~ReportWritten
          /\ mat_files' = mat_files
          /\ \A q \in 1..Len(mat_files) : Parent(WithSuffixNpy(mat_files[q])) \in outdirs
    /\ ReportWritten => (outfiles' = outfiles /\ results' = results /\ calls' = calls)
    /\ (mat_files' # mat_files) => (pc = "start")

\* C18: in a non-empty batch discovery finishes first, then every output directory is
\* created before the first conversion, then all files are converted, and the report is
\* written exactly once, after the last result, holding every per-file result
C18_PhaseOrder == []C18_Phases /\ [][C18_Step]_vars

\* a finished run over two files in different directories, with its report
C18_Witness ==
    /\ pc = "done"
    /\ Len(mat_files) = 2
    /\ Parent(mat_files[1]) # Parent(mat_files[2])
    /\ ReportWritten
    /\ Len(DictGet(outfiles, ReportPath).conversion_details) = 2


\* exactly one of success, a non-empty warnings list, a non-empty errors list
OneOutcome(r) ==
    /\ r.success \/ r.warnings # <<>> \/ r.errors # <<>>
    /\ r.success => (r.warnings = <<>> /\ r.errors = <<>>)
    /\ ~(r.warnings # <<>> /\ r.errors # <<>>)

\* C19: every record convert_and_verify returns is in exactly one outcome class: success,
\* or warnings non-empty, or errors non-empty; so in every report written
\* successful + with_warnings + with_errors = total_files
C19_OneOutcomeClass ==
    /\ \A p \in 1..Len(results) : OneOutcome(results[p].val)
    /\ ReportWritten =>
          DictGet(outfiles, ReportPath).summary.successful
             + DictGet(outfiles, ReportPath).summary.with_warnings
             + DictGet(outfiles, ReportPath).summary.with_errors
          = DictGet(outfiles, ReportPath).summary.total_files

\* a report over two files, one with the transpose warning and one with an error
C19_Witness ==
    /\ ReportWritten
    /\ Len(results) = 2
    /\ results[1].val.warnings # <<>>
    /\ results[2].val.errors # <<>>
    /\ DictGet(outfiles, ReportPath).summary.with_warnings = 1
    /\ DictGet(outfiles, ReportPath).summary.with_errors = 1
    /\ DictGet(outfiles, ReportPath).summary.successful = 0

\* the same for the record of a single call, over all files of the single-call inputs
C19_OneOutcomeSingleCall ==
    (ret.op \in {"convert", "reconvert"}) => OneOutcome(ret.out.result)


\* the value read back is an array identical to the loaded array
IdenticalReadBack ==
    /\ Persisted
    /\ IsNdArray(Payload.data)
    /\ ReadBack.tag = Payload.data.tag
    /\ ReadBack.shape = Payload.data.shape
    /\ ReadBack.dtype = Payload.data.dtype
    /\ ReadBack.elems = Payload.data.elems

\* C20: whenever the array read back is identical to the loaded array (shape, dtype,
\* elements), compare_matrices gives values_equal = true and convert_and_verify reports
\* success = true with no warning and no error, for every array the loader can return,
\* arrays with zero elements included
C20_IdenticalSucceeds ==
    IdenticalReadBack =>
        /\ ConvertResult.verification.type = "array"
        /\ ConvertResult.verification.values_equal
        /\ ConvertResult.success
        /\ ConvertResult.warnings = <<>>
        /\ ConvertResult.errors = <<>>

\* the part of C20 the code keeps: arrays with at least one element, all elements finite
\* for a floating dtype; the 2x3 float64 legacy scenario is one of them
C20_FiniteNonEmptySucceeds ==
    (/\ IdenticalReadBack
     /\ Len(Payload.data.elems) > 0
     /\ \A p \in 1..Len(Payload.data.elems) : Payload.data.elems[p].k = "fin") =>
        /\ ConvertResult.verification.values_equal
        /\ ConvertResult.success
        /\ ConvertResult.warnings = <<>>
        /\ ConvertResult.errors = <<>>

\* the conversion of a legacy file holding a 0x0 float64 array: the array read back is
\* identical, the maximum of no elements raises inside the comparison, values_equal stays
\* false and the record gets the transpose warning
C20_EmptyArrayNotEqual ==
    /\ IdenticalReadBack
    /\ arg.file.fmt = "legacy"
    /\ Payload.data.shape = <<0, 0>>
    /\ ~ConvertResult.verification.values_equal
    /\ ConvertResult.verification.differences.comparison_error
    /\ ~ConvertResult.success
    /\ ConvertResult.warnings # <<>>

\* the conversion of an array holding a nan: identical read back, reported as different
C20_NaNNotEqual ==
    /\ IdenticalReadBack
    /\ \E p \in 1..Len(Payload.data.elems) : Payload.data.elems[p].k = "nan"
    /\ ~ConvertResult.success
    /\ ConvertResult.errors # <<>>


\* the output file of the p-th result holds what was loaded from that result's source file
HoldsOwnOutput(p) ==
    /\ results[p].val.output_file \in DictKeys(outfiles)
    /\ DictGet(outfiles, results[p].val.output_file) = NpyFile(Stored(LoadOf(results[p].key).data))

\* C21: within one batch run two distinct discovered files never get the same target path
\* under the output root, so that no file's converted output is overwritten by another
\* file's: at the end every successfully converted file's target still holds its own data
C21_TargetsInjective ==
    /\ \A p, q \in 1..Len(mat_files) :
          (mat_files[p] # mat_files[q]) => (TargetOf(mat_files[p]) # TargetOf(mat_files[q]))
    /\ (pc = "done") =>
          \A p \in 1..Len(results) : results[p].val.success => HoldsOwnOutput(p)

\* a finished run over a.mat and a.MAT of one directory: both records name the same output
\* file, the first conversion succeeded, and the file now holds the second file's data
C21_Overwritten ==
    /\ pc = "done"
    /\ Len(mat_files) = 2
    /\ mat_files[1] # mat_files[2]
    /\ mat_files[1].dir = mat_files[2].dir
    /\ mat_files[1].stem = mat_files[2].stem
    /\ Len(results) = 2
    /\ results[1].val.output_file = results[2].val.output_file
    /\ results[1].val.success
    /\ ~HoldsOwnOutput(1)
    /\ HoldsOwnOutput(2)

====
